---- MODULE Spec2Model ----
(***************************************************************************)
(* Revive-Logbook: the IndexedDB record store (lib/indexeddb), the         *)
(* enrichment pass (lib/revive-enrichment), the dashboard's refresh and    *)
(* backfill (components/revives-dashboard) and the table's filter, sort    *)
(* and pagination state (components/revives-table).                        *)
(*                                                                         *)
(* Conventions.  An optional value (T | null | undefined) is a sequence of *)
(* length 0 or 1.  A string that is searched or compared character by      *)
(* character (player and faction names) is a sequence of one-character     *)
(* strings.  A hospital reason is a sequence of phrases.  Skill and gain   *)
(* are fixed-point numbers in thousandths, chance in hundredths.           *)
(***************************************************************************)
EXTENDS Integers, Sequences, FiniteSets, Bags, TLC

(***************************************************************************)
(* Bounds of the model                                                     *)
(***************************************************************************)
\* ids 1..NumFresh are the records the external source hands out in pages
NumFresh == 1
\* ids NumFresh+1..NumFresh+NumCached are a block of records that an earlier
\* session may have left in the persistent store
NumCached == 10
\* longest page the external source returns
MaxPageLen == 2
\* fetchRevives / loadFromCache calls that may be in flight together
MaxInFlight == 2
\* saveExcludedFilters requests that may be queued
MaxPending == 2
\* highest page number the table is driven to
MaxPage == 3
\* filters that are set together where every filter of the table can be set
MaxActive == 2
\* changes of the view (page, search, sort, exclusion) that are in effect
\* together while the payment ledger is followed
MaxViewChanges == 1

FreshIds == 1..NumFresh
CachedIds == (NumFresh + 1)..(NumFresh + NumCached)
NumIds == NumFresh + NumCached

None == <<>>
Some(x) == <<x>>

Modes == {"user", "faction"}

(***************************************************************************)
(* lib/indexeddb: constants                                                *)
(***************************************************************************)
SETTINGS_STORE == "settings"
USER_REVIVES_STORE == "userRevives"
FACTION_REVIVES_STORE == "factionRevives"
PAYMENT_STATUS_STORE == "paymentStatus"

ReviveStores == {USER_REVIVES_STORE, FACTION_REVIVES_STORE}

\* one store for the records of both modes
StoreNameShared(mode) == USER_REVIVES_STORE

StoreName(mode) == IF mode = "user" THEN USER_REVIVES_STORE ELSE FACTION_REVIVES_STORE

(***************************************************************************)
(* The records of the external source.  A record is identified by its id;  *)
(* record 1 exists in two versions (ver 1: the target was renamed, lost    *)
(* its faction, and the source reports a later timestamp), so that a page  *)
(* can re-send a cached id with different content.                         *)
(***************************************************************************)
HalfDay == 12 * 60 * 60

NameBo == <<"b", "o">>
NameBO == <<"B", "o">>
NameAm == <<"a", "m">>
FacX == <<"X">>
Facx == <<"x">>

TargetName(id, ver) ==
  IF ver = 1 THEN NameAm
  ELSE IF id % 2 = 0 THEN NameBO ELSE NameBo

TargetFaction(id, ver) ==
  IF ver = 1 \/ id % 5 = 2 THEN None
  ELSE IF id % 2 = 0 THEN Some([id |-> 10, name |-> FacX])
  ELSE Some([id |-> 11, name |-> Facx])

Reason(id) ==
  CASE id % 3 = 0 -> Some(<<"Hospitalized by", "someone">>)
    [] id % 3 = 1 -> Some(<<"Overdosed on", "Xanax">>)
    [] OTHER -> None

ReviveData(id, ver) ==
  [ id |-> id,
    reviver |-> [id |-> 1, skill |-> IF id % 4 = 0 THEN None ELSE Some(10000 * id)],
    target |-> [ id |-> 100 + (id % 3),
                 name |-> TargetName(id, ver),
                 faction |-> TargetFaction(id, ver),
                 hospital_reason |-> Reason(id) ],
    result |-> IF id % 5 = 0 THEN "failure" ELSE "success",
    success_chance |-> 1000 * (id % 10),
    timestamp |-> IF ver = 1 THEN (NumIds + 1) * HalfDay ELSE id * HalfDay ]

Versions(id) == IF id = 1 THEN {0, 1} ELSE {0}

\* every record a page can carry
Fetchable == UNION { { ReviveData(id, ver) : ver \in Versions(id) } : id \in FreshIds }

\* the block an earlier session may have cached, in key order
CachedBlock == [ i \in 1..NumCached |-> ReviveData(NumFresh + i, 0) ]

\* the pages the external source may answer with: every sequence of at most
\* MaxPageLen fetchable records, in any order, repetitions of an id included
RECURSIVE SeqsUpTo(_, _)
SeqsUpTo(S, n) ==
  IF n = 0 THEN { <<>> }
  ELSE LET shorter == SeqsUpTo(S, n - 1)
       IN  shorter \cup { Append(s, x) : s \in shorter, x \in S }

Pages == SeqsUpTo(Fetchable, MaxPageLen)

(***************************************************************************)
(* Sequence helpers                                                        *)
(***************************************************************************)
Range(s) == { s[i] : i \in 1..Len(s) }

\* an insertion that puts the element before the elements of equal key
InsertPairBefore(sorted, kx) ==
  SelectSeq(sorted, LAMBDA y : y[1] < kx[1]) \o <<kx>> \o SelectSeq(sorted, LAMBDA y : y[1] >= kx[1])

\* Array.prototype.sort with the comparator key(a) - key(b): a stable sort,
\* equal keys keep their order
\* (an insertion sort over <<key, element>> pairs: each element goes behind
\* the elements already placed whose key is not greater)
InsertPair(sorted, kx) ==
  SelectSeq(sorted, LAMBDA y : y[1] <= kx[1]) \o <<kx>> \o SelectSeq(sorted, LAMBDA y : y[1] > kx[1])

RECURSIVE SortPairs(_)
SortPairs(pairs) ==
  IF pairs = <<>> THEN <<>>
  ELSE InsertPair(SortPairs(SubSeq(pairs, 1, Len(pairs) - 1)), pairs[Len(pairs)])

Seconds(pairs) == [ i \in 1..Len(pairs) |-> pairs[i][2] ]

SortByKey(s, key(_)) == Seconds(SortPairs([ i \in 1..Len(s) |-> << key(s[i]), s[i] >> ]))

(***************************************************************************)
(* lib/indexeddb: the revive object stores (keyPath "id", index            *)
(* "timestamp").  An object store is the sequence of its records in key    *)
(* order, which is the order getAll returns them in.                       *)
(***************************************************************************)
\* a put that leaves the record stored under the same key in place
StorePutBeside(content, r) ==
  SelectSeq(content, LAMBDA x : x.id <= r.id) \o <<r>> \o SelectSeq(content, LAMBDA x : x.id > r.id)

\* IDBObjectStore.put on a store with keyPath "id": the record takes its
\* place in key order and replaces the one stored under the same key, if any
StorePut(content, r) ==
  SelectSeq(content, LAMBDA x : x.id < r.id) \o <<r>> \o SelectSeq(content, LAMBDA x : x.id > r.id)

\* a save with IDBObjectStore.add in place of put: a stored key is not written again
RECURSIVE saveRevivesAdd(_, _)
saveRevivesAdd(content, revs) ==
  IF revs = <<>> THEN content
  ELSE saveRevivesAdd(IF \E i \in 1..Len(content) : content[i].id = Head(revs).id
                      THEN content
                      ELSE StorePut(content, Head(revs)),
                      Tail(revs))

\* a save that replaces what the store holds by the page
RECURSIVE saveRevivesOverwrite(_, _)
saveRevivesOverwrite(content, revs) ==
  IF revs = <<>> THEN <<>>
  ELSE StorePut(saveRevivesOverwrite(content, Tail(revs)), Head(revs))

\* saveRevives: one readwrite transaction that puts the records in order
RECURSIVE saveRevives(_, _)
saveRevives(content, revs) ==
  IF revs = <<>> THEN content
  ELSE saveRevives(StorePut(content, Head(revs)), Tail(revs))

\* getAllRevives: store.getAll()
getAllRevives(content) == content

\* getOldestTimestamp: the first record of the "timestamp" index, or null
ByTimestamp(r) == r.timestamp

getOldestTimestamp(content) ==
  IF content = <<>> THEN None ELSE Some(SortByKey(content, ByTimestamp)[1].timestamp)

(***************************************************************************)
(* lib/revive-enrichment                                                   *)
(***************************************************************************)
\* reason.includes(p), a reason being a sequence of phrases
HasPhrase(reason, p) == p \in Range(reason)

\* a classification that tests the PvP phrases before the casino phrases
getCategoryPvPFirst(reason) ==
  IF HasPhrase(reason, "Shot themselves in the foot") THEN "RR"
  ELSE IF HasPhrase(reason, "Severe emesis following Ipecac Syrup ingestion") THEN "Self Hosp"
  ELSE IF \E q \in {"Lost to", "Mugged by", "Hospitalized by"} : HasPhrase(reason, q) THEN "PvP"
  ELSE IF \/ HasPhrase(reason, "Punched in the face by Leslie")
          \/ HasPhrase(reason, "face punch")
          \/ HasPhrase(reason, "kick to the throat")
          \/ HasPhrase(reason, "choke hold") THEN "Casino"
  ELSE IF \E o \in {"Overdosed on", "Collapsed after"} : HasPhrase(reason, o) THEN "OD"
  ELSE "Crime"

getCategory(reason) ==
  IF HasPhrase(reason, "Shot themselves in the foot") THEN "RR"
  ELSE IF HasPhrase(reason, "Severe emesis following Ipecac Syrup ingestion") THEN "Self Hosp"
  ELSE IF \/ HasPhrase(reason, "Punched in the face by Leslie")
          \/ HasPhrase(reason, "face punch")
          \/ HasPhrase(reason, "kick to the throat")
          \/ HasPhrase(reason, "choke hold") THEN "Casino"
  ELSE IF \E q \in {"Lost to", "Mugged by", "Hospitalized by"} : HasPhrase(reason, q) THEN "PvP"
  ELSE IF \E o \in {"Overdosed on", "Collapsed after"} : HasPhrase(reason, o) THEN "OD"
  ELSE "Crime"

\* bands with open upper bounds
getLikelihoodOpen(chance) ==
  IF chance < 3000 THEN "Low"
  ELSE IF chance < 6000 THEN "Medium"
  ELSE IF chance < 8000 THEN "High"
  ELSE "Very High"

\* chance in hundredths: 30, 60 and 80 percent
getLikelihood(chance) ==
  IF chance <= 3000 THEN "Low"
  ELSE IF chance <= 6000 THEN "Medium"
  ELSE IF chance <= 8000 THEN "High"
  ELSE "Very High"

\* x || 0 and x || "" on an optional value
OrZero(opt) == IF opt = None THEN 0 ELSE opt[1]
OrEmpty(opt) == IF opt = None THEN <<>> ELSE opt[1]

\* first pass of enrichRevives: the raw fields and the per-record fields
Enrich1(revive) ==
  [ id |-> revive.id,
    reviver |-> revive.reviver,
    target |-> revive.target,
    result |-> revive.result,
    success_chance |-> revive.success_chance,
    timestamp |-> revive.timestamp,
    Success |-> revive.result = "success",
    Category |-> getCategory(OrEmpty(revive.target.hospital_reason)),
    Chance |-> revive.success_chance,
    Likelihood |-> getLikelihood(revive.success_chance),
    Gain |-> None,
    HospitalizedBy |-> OrEmpty(revive.target.hospital_reason) ]

\* indices of the revives by the user, failed ones included
allMyRevives(enriched, userReviveId) ==
  LET idx == [ i \in 1..Len(enriched) |-> i ]
      mine == SelectSeq(idx, LAMBDA i : /\ enriched[i].reviver.id = userReviveId
                                       /\ enriched[i].target.id # userReviveId)
  IN  SortByKey(mine, LAMBDA i : enriched[i].timestamp)

\* indices of the successful revives by the user, ascending by timestamp
mySuccessfulRevives(enriched, userReviveId) ==
  LET idx == [ i \in 1..Len(enriched) |-> i ]
      mine == SelectSeq(idx, LAMBDA i : /\ enriched[i].reviver.id = userReviveId
                                       /\ enriched[i].target.id # userReviveId
                                       /\ enriched[i].result = "success")
  IN  SortByKey(mine, LAMBDA i : enriched[i].timestamp)

\* a rounding down to hundredths
Floor2(gain) == (gain \div 10) * 10

\* Math.round(gain * 100) / 100 on thousandths: Math.round(x) is the floor
\* of x + 0.5
Round2(gain) == ((gain + 5) \div 10) * 10

\* the skill gain of current from next (skill 100 is 100000 thousandths)
SkillGain(current, next) ==
  IF OrZero(next.reviver.skill) >= 100000 THEN 0
  ELSE Round2(OrZero(current.reviver.skill) - OrZero(next.reviver.skill))

\* second pass: the loop over mySuccessfulRevives, from position k on
RECURSIVE GainLoop(_, _, _)
GainLoop(enriched, my, k) ==
  IF k >= Len(my) THEN enriched
  ELSE GainLoop([ enriched EXCEPT ![my[k]].Gain = Some(SkillGain(enriched[my[k]], enriched[my[k + 1]])) ],
                my, k + 1)

SecondPass(enriched, userReviveId) ==
  GainLoop(enriched, mySuccessfulRevives(enriched, userReviveId), 1)

\* an enrichment that returns the newest record first
enrichRevivesNewestFirst(revives, userReviveId) ==
  IF revives = <<>> THEN <<>>
  ELSE LET byTime == SortByKey(revives, LAMBDA r : 0 - r.timestamp)
       IN  SecondPass([ i \in 1..Len(byTime) |-> Enrich1(byTime[i]) ], userReviveId)

enrichRevives(revives, userReviveId) ==
  IF revives = <<>> THEN <<>>
  ELSE SecondPass([ i \in 1..Len(revives) |-> Enrich1(revives[i]) ], userReviveId)

(***************************************************************************)
(* components/revives-table: the filtered, sorted and paginated view       *)
(***************************************************************************)
LowerChar(c) ==
  CASE c = "A" -> "a" [] c = "B" -> "b" [] c = "M" -> "m"
    [] c = "O" -> "o" [] c = "X" -> "x" [] OTHER -> c

\* a conversion that keeps the case of every letter
keepCase(str) == str

toLowerCase(str) == [ i \in 1..Len(str) |-> LowerChar(str[i]) ]

\* String.prototype.includes
includes(str, sub) ==
  \E i \in 0..(Len(str) - Len(sub)) : SubSeq(str, i + 1, i + Len(sub)) = sub

\* str.trim() is the empty string
IsBlank(str) == \A i \in 1..Len(str) : str[i] = " "

PageSizes == {5, 10, 15, 20}
CategoryOptions == {"all", "PvP", "OD", "Crime", "RR", "Self Hosp", "Casino"}
OutcomeOptions == {"all", "success", "failure"}
SortFields == {"timestamp", "skill", "likelihood"}

\* a membership test that ignores case
hasAnyCase(set, x) == \E y \in set : toLowerCase(y) = toLowerCase(x)

\* Set.prototype.has on a set of strings
has(set, x) == x \in set

PassesFilters(r, t) ==
  /\ t.categoryFilter # "all" => r.Category = t.categoryFilter
  /\ t.outcomeFilter # "all" => r.Success = (t.outcomeFilter = "success")
  /\ ~IsBlank(t.playerSearch) =>
       includes(toLowerCase(r.target.name), toLowerCase(t.playerSearch))
  /\ ~IsBlank(t.factionSearch) =>
       /\ r.target.faction # None
       /\ includes(toLowerCase(r.target.faction[1].name), toLowerCase(t.factionSearch))
  /\ t.excludedPlayers # {} => ~has(t.excludedPlayers, r.target.name)
  /\ t.excludedFactions # {} =>
       \/ r.target.faction = None
       \/ r.target.faction[1].name = <<>>
       \/ ~has(t.excludedFactions, r.target.faction[1].name)
  /\ t.dateFrom # None => r.timestamp >= t.dateFrom[1]
  /\ t.dateTo # None => r.timestamp <= t.dateTo[1] + 86399

SortKey(r, t) ==
  LET comparisonKey == CASE t.sortField = "timestamp" -> r.timestamp
                         [] t.sortField = "skill" -> OrZero(r.reviver.skill)
                         [] t.sortField = "likelihood" -> r.Chance
  IN  IF t.sortDirection = "asc" THEN comparisonKey ELSE 0 - comparisonKey

\* the filter step of filteredAndSortedRevives
filtered(revives, t) == SelectSeq(revives, LAMBDA r : PassesFilters(r, t))

filteredAndSortedRevives(revives, t) ==
  SortByKey(filtered(revives, t), LAMBDA r : SortKey(r, t))

\* Math.ceil(n / size)
CeilDiv(n, size) == (n + size - 1) \div size

\* Math.ceil(filteredAndSortedRevives.length / pageSize); the sort step keeps
\* the length of what the filter step returns
totalPages(revives, t) == CeilDiv(Len(filtered(revives, t)), t.pageSize)

\* a slice that starts one page late
paginatedRevivesOnePageLate(revives, t) ==
  LET all == filteredAndSortedRevives(revives, t)
      startIndex == t.currentPage * t.pageSize
      endIndex == startIndex + t.pageSize
  IN  SubSeq(all, startIndex + 1, IF endIndex < Len(all) THEN endIndex ELSE Len(all))

paginatedRevives(revives, t) ==
  LET all == filteredAndSortedRevives(revives, t)
      startIndex == (t.currentPage - 1) * t.pageSize
      endIndex == startIndex + t.pageSize
  IN  SubSeq(all, startIndex + 1, IF endIndex < Len(all) THEN endIndex ELSE Len(all))

(***************************************************************************)
(* State                                                                   *)
(***************************************************************************)
VARIABLES
  settings,        \* object store "settings": apiKey, apiMode, excludedFilters
  stores,          \* object stores "userRevives" and "factionRevives"
  paymentStore,    \* object store "paymentStatus"
  settingsQ,       \* queued transactions on the excludedFilters key, oldest first
  isAuthenticated, \* HomePage: the dashboard is mounted
  dash,            \* state of the mounted RevivesDashboard
  tbl,             \* state of the mounted RevivesTable
  tasks,           \* the loadFromCache / fetchRevives calls in flight (a bag)
  merged           \* history: ids saved into each store since the last clearAllData

vars == << settings, stores, paymentStore, settingsQ, isAuthenticated, dash, tbl, tasks, merged >>

DashInit ==
  [ revives |-> <<>>, isLoading |-> TRUE, isFetching |-> FALSE, isLoadingMore |-> FALSE,
    error |-> "", userReviveId |-> 0, hasMoreData |-> TRUE, mode |-> "user",
    filteredRevivesRef |-> <<>>, exported |-> None ]

TblInit ==
  [ mounted |-> FALSE,
    sortField |-> "timestamp", sortDirection |-> "desc",
    currentPage |-> 1, pageSize |-> 10,
    categoryFilter |-> "all", outcomeFilter |-> "all",
    dateFrom |-> None, dateTo |-> None,
    playerSearch |-> <<>>, factionSearch |-> <<>>,
    excludedPlayers |-> {}, excludedFactions |-> {},
    paymentStatuses |-> {}, paymentsLoaded |-> FALSE ]

\* a call in flight: where it awaits (pc), its argument (backfill), whether
\* the dashboard that made it is still mounted (live), its locals currentMode,
\* oldestTimestamp and fetchedRevives, (history) hasMoreData as it was
\* when the call was requested, and for a togglePaymentStatus call the
\* entry it writes
NewTask(pc, backfill, hadMore) ==
  [ pc |-> pc, backfill |-> backfill, live |-> TRUE, mode |-> "user",
    oldest |-> None, page |-> <<>>, hadMore |-> hadMore, item |-> None ]

InFlight == BagToSet(tasks)
HasFreeSlot == BagCardinality(tasks) < MaxInFlight

Started(t) == tasks (+) SetToBag({t})
Ended(t) == tasks (-) SetToBag({t})
Stepped(t, t2) == Ended(t) (+) SetToBag({t2})

\* the calls of an unmounted dashboard go on, their state updates are dropped
Orphan(t) == [ t EXCEPT !.live = FALSE ]
Orphaned(bag) == BagOfAll(Orphan, bag)

GetOp == [ op |-> "get", players |-> {}, factions |-> {} ]
PutOp(players, factions) == [ op |-> "put", players |-> players, factions |-> factions ]

\* the dashboard renders the table once loading is over and there are revives
TableShown(auth, d) == auth /\ ~d.isLoading /\ d.revives # <<>>

\* the table after a render of the dashboard: mounted with its initial state
\* (and its loadExcludedFilters request issued) when it first appears
TblAfter(auth, d) ==
  IF TableShown(auth, d)
  THEN IF tbl.mounted THEN tbl ELSE [ TblInit EXCEPT !.mounted = TRUE ]
  ELSE TblInit

QueueAfter(auth, d, q) ==
  IF TableShown(auth, d)
  THEN IF tbl.mounted THEN q ELSE Append(q, GetOp)
  ELSE SelectSeq(q, LAMBDA o : o.op = "put")

IdsOf(content) == { content[i].id : i \in 1..Len(content) }

(***************************************************************************)
(* Init: the page has run initDB and checkAuth.  The database persists     *)
(* across sessions, so it may hold the key, the mode and cached records of *)
(* an earlier session.                                                     *)
(***************************************************************************)
InitLedger(key, apiMode, cached, ledger) ==
    /\ settings = [ apiKey |-> key, apiMode |-> apiMode, excludedFilters |-> None ]
    /\ stores = [ n \in ReviveStores |-> cached ]
    /\ paymentStore = ledger
    /\ settingsQ = <<>>
    /\ isAuthenticated = (key # None)
    /\ dash = DashInit
    /\ tbl = TblInit
    /\ tasks = IF key # None THEN SetToBag({ NewTask("lc_mode", FALSE, DashInit.hasMoreData) }) ELSE EmptyBag
    /\ merged = [ n \in ReviveStores |-> IdsOf(stores[n]) ]

InitWith(key, apiMode, cached) == InitLedger(key, apiMode, cached, {})

\* a first visit, or the return of a user with a cache
Init ==
  \/ InitWith(None, None, <<>>)
  \/ InitWith(Some("key"), Some("user"), CachedBlock)

(***************************************************************************)
(* lib/indexeddb: settings                                                 *)
(***************************************************************************)
getApiKey == settings.apiKey
getApiMode == IF settings.apiMode = None THEN "user" ELSE settings.apiMode[1]

(***************************************************************************)
(* components/login-form and app/page                                      *)
(***************************************************************************)
\* LoginForm.handleSubmit with a key the API accepts, then HomePage.handleLogin:
\* the dashboard mounts and its effect starts loadFromCache().then(fetchRevives)
Login(m) ==
  /\ ~isAuthenticated
  /\ HasFreeSlot
  /\ settings' = [ settings EXCEPT !.apiKey = Some("key"), !.apiMode = Some(m) ]
  /\ isAuthenticated' = TRUE
  /\ dash' = DashInit
  /\ tbl' = TblInit
  /\ tasks' = Started(NewTask("lc_mode", FALSE, DashInit.hasMoreData))
  /\ UNCHANGED << stores, paymentStore, settingsQ, merged >>

\* HomePage.handleLogout: the dashboard and its table unmount
Unmount(q) ==
  /\ isAuthenticated' = FALSE
  /\ dash' = DashInit
  /\ tbl' = TblInit
  /\ settingsQ' = SelectSeq(q, LAMBDA o : o.op = "put")

(***************************************************************************)
(* components/revives-dashboard                                            *)
(***************************************************************************)
\* a state update of the call t reaches the dashboard only while the
\* dashboard that made the call is mounted
Update(t, d) == IF t.live THEN d ELSE dash

\* the finally block of fetchRevives
Finally(d) == [ d EXCEPT !.isLoading = FALSE, !.isFetching = FALSE, !.isLoadingMore = FALSE ]

\* a render after the dashboard state became d
Rendered(d) ==
  /\ dash' = d
  /\ tbl' = TblAfter(isAuthenticated, d)
  /\ settingsQ' = QueueAfter(isAuthenticated, d, settingsQ)

\* loadFromCache: await getApiMode()
LoadFromCacheMode(t) ==
  /\ t.pc = "lc_mode"
  /\ tasks' = Stepped(t, [ t EXCEPT !.pc = "lc_getall", !.mode = getApiMode ])
  /\ Rendered(Update(t, [ dash EXCEPT !.mode = getApiMode ]))
  /\ UNCHANGED << settings, stores, paymentStore, isAuthenticated, merged >>

\* loadFromCache: await getAllRevives(currentMode), then the synchronous start
\* of fetchRevives()
LoadFromCacheGetAll(t) ==
  /\ t.pc = "lc_getall"
  /\ LET cachedRevives == getAllRevives(stores[StoreName(t.mode)])
         loaded == IF cachedRevives = <<>> THEN dash
                   ELSE [ dash EXCEPT !.revives = enrichRevives(cachedRevives, cachedRevives[1].reviver.id),
                                      !.userReviveId = IF cachedRevives[1].reviver.id # 0
                                                       THEN cachedRevives[1].reviver.id ELSE @ ]
     IN  Rendered(Update(t, [ loaded EXCEPT !.isFetching = TRUE, !.error = "" ]))
  /\ tasks' = Stepped(t, [ t EXCEPT !.pc = "key", !.backfill = FALSE ])
  /\ UNCHANGED << settings, stores, paymentStore, isAuthenticated, merged >>

\* fetchRevives: await getApiKey(); without a key onLogout() and return
FetchGetApiKey(t) ==
  /\ t.pc = "key"
  /\ IF getApiKey = None
     THEN /\ Unmount(settingsQ)
          /\ tasks' = Orphaned(Ended(t))
     ELSE /\ tasks' = Stepped(t, [ t EXCEPT !.pc = "mode" ])
          /\ UNCHANGED << isAuthenticated, dash, tbl, settingsQ >>
  /\ UNCHANGED << settings, stores, paymentStore, merged >>

\* fetchRevives: await getApiMode(); setMode
FetchGetApiMode(t) ==
  /\ t.pc = "mode"
  /\ tasks' = Stepped(t, [ t EXCEPT !.pc = IF t.backfill THEN "oldest" ELSE "fetch",
                                    !.mode = getApiMode ])
  /\ Rendered(Update(t, [ dash EXCEPT !.mode = getApiMode ]))
  /\ UNCHANGED << settings, stores, paymentStore, isAuthenticated, merged >>

\* fetchRevives(true): await getOldestTimestamp(currentMode)
FetchGetOldest(t) ==
  /\ t.pc = "oldest"
  /\ tasks' = Stepped(t, [ t EXCEPT !.pc = "fetch",
                                    !.oldest = getOldestTimestamp(stores[StoreName(t.mode)]) ])
  /\ UNCHANGED << settings, stores, paymentStore, settingsQ, isAuthenticated, dash, tbl, merged >>

\* fetchRevives: fetch rejects or the response is not ok; catch, finally
FetchFail(t) ==
  /\ t.pc = "fetch"
  /\ tasks' = Ended(t)
  /\ Rendered(Update(t, Finally([ dash EXCEPT !.error = "Failed to fetch revives. Please try again." ])))
  /\ UNCHANGED << settings, stores, paymentStore, isAuthenticated, merged >>

\* an empty page that leaves hasMoreData as it is
EmptyPageIgnored(backfill, d) == d

\* fetchRevives: if (backfill && fetchedRevives.length === 0) setHasMoreData(false)
EmptyPage(backfill, d) == IF backfill THEN [ d EXCEPT !.hasMoreData = FALSE ] ELSE d

\* fetchRevives: the response carries the page fetchedRevives
FetchResponse(t, fetchedRevives) ==
  /\ t.pc = "fetch"
  /\ IF fetchedRevives = <<>>
     THEN /\ tasks' = Ended(t)
          /\ Rendered(Update(t, Finally(EmptyPage(t.backfill, dash))))
     ELSE /\ tasks' = Stepped(t, [ t EXCEPT !.pc = "save", !.page = fetchedRevives,
                                            !.hadMore = TRUE ])
          /\ Rendered(Update(t, [ dash EXCEPT !.userReviveId =
                                     IF @ = 0 THEN fetchedRevives[1].reviver.id ELSE @ ]))
  /\ UNCHANGED << settings, stores, paymentStore, isAuthenticated, merged >>

\* fetchRevives: await saveRevives(fetchedRevives, currentMode)
SaveRevivesDone(t) ==
  /\ t.pc = "save"
  /\ LET sn == StoreName(t.mode)
     IN  /\ stores' = [ stores EXCEPT ![sn] = saveRevives(@, t.page) ]
         /\ merged' = [ merged EXCEPT ![sn] = @ \cup IdsOf(t.page) ]
  /\ tasks' = Stepped(t, [ t EXCEPT !.pc = "getall", !.oldest = None ])
  /\ UNCHANGED << settings, paymentStore, settingsQ, isAuthenticated, dash, tbl >>

\* a fetchRevives that displays the enrichment of the fetched page alone
GetAllRevivesDonePageOnly(t) ==
  /\ t.pc = "getall"
  /\ LET first == t.page[1].reviver.id
         enriched == enrichRevives(t.page, IF first # 0 THEN first ELSE dash.userReviveId)
     IN  Rendered(Update(t, Finally([ dash EXCEPT !.revives = enriched ])))
  /\ tasks' = Ended(t)
  /\ UNCHANGED << settings, stores, paymentStore, isAuthenticated, merged >>

\* fetchRevives: await getAllRevives(currentMode); setRevives; finally
GetAllRevivesDone(t) ==
  /\ t.pc = "getall"
  /\ LET allRevives == getAllRevives(stores[StoreName(t.mode)])
         first == t.page[1].reviver.id
         enriched == enrichRevives(allRevives, IF first # 0 THEN first ELSE dash.userReviveId)
     IN  Rendered(Update(t, Finally([ dash EXCEPT !.revives = enriched ])))
  /\ tasks' = Ended(t)
  /\ UNCHANGED << settings, stores, paymentStore, isAuthenticated, merged >>

\* the synchronous start of fetchRevives(backfill) from a handler
StartFetch(backfill, d) ==
  /\ HasFreeSlot
  /\ tasks' = Started(NewTask("key", backfill, dash.hasMoreData))
  /\ dash' = [ d EXCEPT !.isFetching = IF backfill THEN @ ELSE TRUE,
                         !.isLoadingMore = IF backfill THEN TRUE ELSE @,
                         !.error = "" ]

\* the Refresh button (disabled while isFetching or isLoadingMore)
handleRefresh ==
  /\ isAuthenticated
  /\ ~(dash.isFetching \/ dash.isLoadingMore)
  /\ StartFetch(FALSE, [ dash EXCEPT !.hasMoreData = TRUE ])
  /\ UNCHANGED << settings, stores, paymentStore, settingsQ, isAuthenticated, tbl, merged >>

\* the Load More button (disabled while isLoadingMore or isFetching, or
\* without hasMoreData)
handleLoadMore ==
  /\ isAuthenticated
  /\ ~(dash.isLoadingMore \/ dash.isFetching \/ ~dash.hasMoreData)
  /\ StartFetch(TRUE, dash)
  /\ UNCHANGED << settings, stores, paymentStore, settingsQ, isAuthenticated, tbl, merged >>

\* handleLogout: await clearApiKey(); onLogout()
handleLogout ==
  /\ isAuthenticated
  /\ settings' = [ settings EXCEPT !.apiKey = None ]
  /\ Unmount(settingsQ)
  /\ tasks' = Orphaned(tasks)
  /\ UNCHANGED << stores, paymentStore, merged >>

\* a clearAllData that leaves the payment ledger as it is
clearAllDataKeepsLedger ==
  [ settings |-> [ apiKey |-> None, apiMode |-> None, excludedFilters |-> None ],
    stores |-> [ n \in ReviveStores |-> <<>> ],
    paymentStore |-> paymentStore ]

\* clearAllData: one readwrite transaction over the four object stores that
\* clears each of them; the database after it has completed
clearAllData ==
  [ settings |-> [ apiKey |-> None, apiMode |-> None, excludedFilters |-> None ],
    stores |-> [ n \in ReviveStores |-> <<>> ],
    paymentStore |-> {} ]

\* the calls in flight once clearAllData has completed: the transactions
\* created before it have run before it (a put of a payment status, the
\* puts of a saveRevives), and what they wrote is cleared
AfterClear(t) == [ t EXCEPT !.live = FALSE, !.pc = IF @ = "save" THEN "getall" ELSE @ ]

\* handleClearAllData: await clearAllData(); onLogout().  The transaction
\* runs after the transactions queued before it.
handleClearAllData ==
  /\ isAuthenticated
  /\ settings' = clearAllData.settings
  /\ stores' = clearAllData.stores
  /\ paymentStore' = clearAllData.paymentStore
  /\ merged' = [ n \in ReviveStores |-> {} ]
  /\ Unmount(<<>>)
  /\ tasks' = BagOfAll(AfterClear, [ t \in { u \in InFlight : u.pc # "pay_put" } |-> tasks[t] ])

\* handleClearAllData when the transaction aborts: the promise rejects, the
\* catch logs, and no object store is changed
handleClearAllDataAborted ==
  /\ isAuthenticated
  /\ UNCHANGED vars

(***************************************************************************)
(* components/revives-table: handlers                                      *)
(***************************************************************************)
TotalPages == totalPages(dash.revives, tbl)

\* handlePageChange: setCurrentPage, and onLoadMore() on the last page
handlePageChange(newPage) ==
  /\ tbl' = [ tbl EXCEPT !.currentPage = newPage ]
  /\ IF newPage = TotalPages /\ ~dash.isLoadingMore
     THEN StartFetch(TRUE, dash)
     ELSE UNCHANGED << dash, tasks >>
  /\ UNCHANGED << settings, stores, paymentStore, settingsQ, isAuthenticated, merged >>

\* "Go to first page" and "Previous page" (disabled on page 1)
FirstPage ==
  /\ tbl.mounted
  /\ tbl.currentPage # 1
  /\ handlePageChange(1)

PreviousPage ==
  /\ tbl.mounted
  /\ tbl.currentPage # 1
  /\ handlePageChange(tbl.currentPage - 1)

\* "Next page" and "Go to last page" (disabled on the last page and when
\* there is no page)
NextPage ==
  /\ tbl.mounted
  /\ ~(tbl.currentPage = TotalPages \/ TotalPages = 0)
  /\ tbl.currentPage < MaxPage
  /\ handlePageChange(tbl.currentPage + 1)

LastPage ==
  /\ tbl.mounted
  /\ ~(tbl.currentPage = TotalPages \/ TotalPages = 0)
  /\ handlePageChange(TotalPages)

\* handlePageJump with pageJumpInput = pageNum
handlePageJump(pageNum) ==
  /\ tbl.mounted
  /\ pageNum >= 1 /\ pageNum <= TotalPages
  /\ handlePageChange(pageNum)

handlePageSizeChange(newSize) ==
  /\ tbl.mounted
  /\ tbl' = [ tbl EXCEPT !.pageSize = newSize, !.currentPage = 1 ]
  /\ UNCHANGED << settings, stores, paymentStore, settingsQ, isAuthenticated, dash, tasks, merged >>

handleSort(field) ==
  /\ tbl.mounted
  /\ tbl' = IF tbl.sortField = field
            THEN [ tbl EXCEPT !.sortDirection = IF @ = "asc" THEN "desc" ELSE "asc" ]
            ELSE [ tbl EXCEPT !.sortField = field, !.sortDirection = "desc" ]
  /\ UNCHANGED << settings, stores, paymentStore, settingsQ, isAuthenticated, dash, tasks, merged >>

(***************************************************************************)
(* The payment ledger: object store "paymentStatus", keyPath "id"          *)
(***************************************************************************)
\* the key `${timestamp}_${targetId}`
PaymentId(timestamp, targetId) == << timestamp, targetId >>

\* IDBObjectStore.put({ id, isPaid })
setPaymentStatus(store, id, isPaid) ==
  { e \in store : e.id # id } \cup { [ id |-> id, isPaid |-> isPaid ] }

\* getAllPaymentStatuses: the map id -> isPaid of the stored entries
getAllPaymentStatuses(store) == store

\* paymentStatuses[id] ?? false
StatusOf(statuses, id) == \E e \in statuses : e.id = id /\ e.isPaid

\* loadPaymentStatuses of the table's mount effect answers.  Its transaction
\* was created at the mount: after the puts of an earlier table, before the
\* puts of this one.
loadPaymentStatuses ==
  /\ tbl.mounted /\ ~tbl.paymentsLoaded
  /\ \A t \in InFlight : t.pc # "pay_put" \/ t.live
  /\ tbl' = [ tbl EXCEPT !.paymentStatuses = getAllPaymentStatuses(paymentStore),
                         !.paymentsLoaded = TRUE ]
  /\ UNCHANGED << settings, stores, paymentStore, settingsQ, isAuthenticated, dash, tasks, merged >>

\* togglePaymentStatus of a row of the page shown, up to the await of
\* setPaymentStatus(id, newStatus)
togglePaymentStatus(timestamp, targetId) ==
  /\ tbl.mounted
  /\ HasFreeSlot
  /\ \E revive \in Range(paginatedRevives(dash.revives, tbl)) :
       revive.timestamp = timestamp /\ revive.target.id = targetId
  /\ LET id == PaymentId(timestamp, targetId)
         currentStatus == StatusOf(tbl.paymentStatuses, id)
         newStatus == ~currentStatus
     IN  tasks' = Started([ NewTask("pay_put", FALSE, dash.hasMoreData)
                             EXCEPT !.item = Some([ id |-> id, isPaid |-> newStatus ]) ])
  /\ UNCHANGED << settings, stores, paymentStore, settingsQ, isAuthenticated, dash, tbl, merged >>

\* togglePaymentStatus: setPaymentStatus has completed; setPaymentStatuses
\* with the functional update
SetPaymentStatusDone(t) ==
  /\ t.pc = "pay_put"
  /\ t.live => tbl.paymentsLoaded
  /\ paymentStore' = setPaymentStatus(paymentStore, t.item[1].id, t.item[1].isPaid)
  /\ tbl' = IF t.live
            THEN [ tbl EXCEPT !.paymentStatuses = setPaymentStatus(@, t.item[1].id, t.item[1].isPaid) ]
            ELSE tbl
  /\ tasks' = Ended(t)
  /\ UNCHANGED << settings, stores, settingsQ, isAuthenticated, dash, merged >>

\* togglePaymentStatus: the put of setPaymentStatus fails (request.onerror
\* rejects), the await throws and setPaymentStatuses is never called
SetPaymentStatusFail(t) ==
  /\ t.pc = "pay_put"
  /\ t.live => tbl.paymentsLoaded
  /\ tasks' = Ended(t)
  /\ UNCHANGED << settings, stores, paymentStore, settingsQ, isAuthenticated, dash, tbl, merged >>

\* an effect that never runs
PageResetEffectSkipped(t, changed) == t

\* the effect on [categoryFilter, outcomeFilter, playerSearch, factionSearch,
\* excludedPlayers, excludedFactions, dateRange]: setCurrentPage(1) when a
\* dependency changed (a new Set or dateRange object always counts as changed)
PageResetEffect(t, changed) == IF changed THEN [ t EXCEPT !.currentPage = 1 ] ELSE t

TableOnly == UNCHANGED << settings, stores, paymentStore, settingsQ, isAuthenticated, dash, tasks, merged >>

setCategoryFilter(value) ==
  /\ tbl.mounted
  /\ tbl' = PageResetEffect([ tbl EXCEPT !.categoryFilter = value ], value # tbl.categoryFilter)
  /\ TableOnly

setOutcomeFilter(value) ==
  /\ tbl.mounted
  /\ tbl' = PageResetEffect([ tbl EXCEPT !.outcomeFilter = value ], value # tbl.outcomeFilter)
  /\ TableOnly

setPlayerSearch(value) ==
  /\ tbl.mounted
  /\ tbl' = PageResetEffect([ tbl EXCEPT !.playerSearch = value ], value # tbl.playerSearch)
  /\ TableOnly

setFactionSearch(value) ==
  /\ tbl.mounted
  /\ tbl' = PageResetEffect([ tbl EXCEPT !.factionSearch = value ], value # tbl.factionSearch)
  /\ TableOnly

handleFromDateSelect(date) ==
  /\ tbl.mounted
  /\ tbl' = PageResetEffect([ tbl EXCEPT !.dateFrom = date ], TRUE)
  /\ TableOnly

handleToDateSelect(date) ==
  /\ tbl.mounted
  /\ tbl' = PageResetEffect([ tbl EXCEPT !.dateTo = date ], TRUE)
  /\ TableOnly

\* the names offered in the exclude dropdowns
uniquePlayers == { dash.revives[i].target.name : i \in 1..Len(dash.revives) } \ { <<>> }

uniqueFactions ==
  { dash.revives[i].target.faction[1].name :
      i \in { j \in 1..Len(dash.revives) : dash.revives[j].target.faction # None } } \ { <<>> }

\* Array.from(set)
RECURSIVE ArrayFrom(_)
ArrayFrom(set) ==
  IF set = {} THEN <<>>
  ELSE LET x == CHOOSE y \in set : TRUE IN <<x>> \o ArrayFrom(set \ {x})

Toggled(set, x) == IF x \in set THEN set \ {x} ELSE set \cup {x}

PendingPuts == Len(SelectSeq(settingsQ, LAMBDA o : o.op = "put"))

\* the get of the mounted table's loadExcludedFilters has not answered yet
LoadPending == \E i \in 1..Len(settingsQ) : settingsQ[i].op = "get"

\* saveExcludedFilters: the transaction is queued behind the earlier ones
saveExcludedFilters(players, factions) == settingsQ' = Append(settingsQ, PutOp(players, factions))

toggleExcludePlayer(player) ==
  /\ tbl.mounted
  /\ player \in uniquePlayers
  /\ PendingPuts < MaxPending
  /\ LET newSet == Toggled(tbl.excludedPlayers, player)
     IN  /\ tbl' = PageResetEffect([ tbl EXCEPT !.excludedPlayers = newSet ], TRUE)
         /\ saveExcludedFilters(ArrayFrom(newSet), ArrayFrom(tbl.excludedFactions))
  /\ UNCHANGED << settings, stores, paymentStore, isAuthenticated, dash, tasks, merged >>

toggleExcludeFaction(faction) ==
  /\ tbl.mounted
  /\ faction \in uniqueFactions
  /\ PendingPuts < MaxPending
  /\ LET newSet == Toggled(tbl.excludedFactions, faction)
     IN  /\ tbl' = PageResetEffect([ tbl EXCEPT !.excludedFactions = newSet ], TRUE)
         /\ saveExcludedFilters(ArrayFrom(tbl.excludedPlayers), ArrayFrom(newSet))
  /\ UNCHANGED << settings, stores, paymentStore, isAuthenticated, dash, tasks, merged >>

\* resetFilters: the new dateRange object and the new Sets run the effect
resetFilters ==
  /\ tbl.mounted
  /\ tbl' = PageResetEffect(
              [ tbl EXCEPT !.categoryFilter = "all", !.outcomeFilter = "all",
                           !.dateFrom = None, !.dateTo = None,
                           !.playerSearch = <<>>, !.factionSearch = <<>>,
                           !.excludedPlayers = {}, !.excludedFactions = {},
                           !.sortField = "timestamp", !.sortDirection = "desc" ],
              TRUE)
  /\ TableOnly

\* the oldest queued transaction on the excludedFilters key completes: the
\* put of a saveExcludedFilters, or the get of the table's loadExcludedFilters
\* (new Set(filters.players), new Set(filters.factions) when a value is stored)
SettingsTxnDone ==
  /\ settingsQ # <<>>
  /\ settingsQ' = Tail(settingsQ)
  /\ LET o == Head(settingsQ)
     IN  IF o.op = "put"
         THEN /\ settings' = [ settings EXCEPT !.excludedFilters =
                                  Some([ players |-> o.players, factions |-> o.factions ]) ]
              /\ tbl' = tbl
         ELSE /\ settings' = settings
              /\ tbl' = IF settings.excludedFilters = None THEN tbl
                        ELSE PageResetEffect(
                               [ tbl EXCEPT !.excludedPlayers = Range(settings.excludedFilters[1].players),
                                            !.excludedFactions = Range(settings.excludedFilters[1].factions) ],
                               TRUE)
  /\ UNCHANGED << stores, paymentStore, isAuthenticated, dash, tasks, merged >>

(***************************************************************************)
(* Inputs                                                                  *)
(***************************************************************************)
SearchInputs == { <<>>, <<"B">> }
FactionSearchInputs == { <<>>, <<"X">> }
DateInputs == { None, Some(6 * HalfDay) }
CategoryInputs == { "all", "OD" }
OutcomeInputs == { "all", "failure" }

\* pages of at most one record
ShortPages == SeqsUpTo(Fetchable, 1)

\* the row whose payment button is pressed: the oldest cached record
PayRowInputs == { << CachedBlock[1].timestamp, CachedBlock[1].target.id >> }

\* the ledger an earlier session has left: the second oldest cached record
\* paid, or the two oldest
LedgerInputs ==
  { { [ id |-> PaymentId(CachedBlock[i].timestamp, CachedBlock[i].target.id), isPaid |-> TRUE ] : i \in from..2 } :
      from \in 1..2 }

\* hospital reasons: up to two phrases, each a phrase that getCategory looks
\* for, the same phrase in lower case, or other text
Phrases ==
  { "Shot themselves in the foot", "Severe emesis following Ipecac Syrup ingestion",
    "Punched in the face by Leslie", "face punch", "kick to the throat", "choke hold",
    "Lost to", "Mugged by", "Hospitalized by", "Overdosed on", "Collapsed after",
    "lost to", "Fell down the stairs" }

ReasonInputs == { None } \cup { Some(reason) : reason \in SeqsUpTo(Phrases, 2) }

\* chances around the bounds of the bands, in hundredths
ChanceInputs == { 0, 2999, 3000, 3001, 5999, 6000, 6001, 7999, 8000, 8001, 10000 }

\* a record of the reviver 1 with the given reason and chance
ReasonRecord(reason, chance) ==
  [ id |-> 1,
    reviver |-> [id |-> 1, skill |-> Some(50000)],
    target |-> [id |-> 101, name |-> NameBo, faction |-> None, hospital_reason |-> reason],
    result |-> "success",
    success_chance |-> chance,
    timestamp |-> HalfDay ]

\* records for the skill gain, by id: reviver, target, result, skill and
\* timestamp.  In time order the skills of 2, 3 and 1 are 50, 40 and 20;
\* 3 and 4 share a timestamp; 4 has no skill; 5 has skill 100; 6 is a revive
\* by another player; 7 is a revive of the reviver 1 by themselves; 8 failed;
\* 9 and 10 carry a third decimal.
GainTable ==
  << << 1, 101, "success", Some(20000), 50 >>,
     << 1, 102, "success", Some(50000), 10 >>,
     << 1, 103, "success", Some(40000), 30 >>,
     << 1, 104, "success", None, 30 >>,
     << 1, 105, "success", Some(100000), 40 >>,
     << 2, 101, "success", Some(70000), 20 >>,
     << 1, 1, "success", Some(60000), 35 >>,
     << 1, 106, "failure", Some(90000), 45 >>,
     << 1, 107, "success", Some(33336), 5 >>,
     << 1, 108, "success", Some(12342), 70 >> >>

GainRecord(id) ==
  [ id |-> id,
    reviver |-> [id |-> GainTable[id][1], skill |-> GainTable[id][4]],
    target |-> [id |-> GainTable[id][2], name |-> NameBo, faction |-> None, hospital_reason |-> None],
    result |-> GainTable[id][3],
    success_chance |-> 5000,
    timestamp |-> GainTable[id][5] ]

\* the store that holds the records of the ids, in key order
GainStore(ids) == SelectSeq([ id \in 1..Len(GainTable) |-> GainRecord(id) ], LAMBDA r : r.id \in ids)

\* searches that are empty, blank, and a capital letter
BlankableSearchInputs == SearchInputs \cup { <<" ">> }

(***************************************************************************)
(* The dashboard with its store: login and logout, refresh and backfill,   *)
(* page navigation and the player search                                   *)
(***************************************************************************)
Next ==
  \/ \E m \in Modes : Login(m)
  \/ \E t \in InFlight : LoadFromCacheMode(t)
  \/ \E t \in InFlight : LoadFromCacheGetAll(t)
  \/ \E t \in InFlight : FetchGetApiKey(t)
  \/ \E t \in InFlight : FetchGetApiMode(t)
  \/ \E t \in InFlight : FetchGetOldest(t)
  \/ \E t \in InFlight : FetchFail(t)
  \/ \E t \in InFlight, fetchedRevives \in Pages : FetchResponse(t, fetchedRevives)
  \/ \E t \in InFlight : SaveRevivesDone(t)
  \/ \E t \in InFlight : GetAllRevivesDone(t)
  \/ handleRefresh
  \/ handleLoadMore
  \/ handleLogout
  \/ handleClearAllData
  \/ SettingsTxnDone

Spec == Init /\ [][Next]_vars

(***************************************************************************)
(* The table over a returning user's cache: page navigation, page size and *)
(* the player search, with refresh and backfill running underneath         *)
(***************************************************************************)
InitNav == InitWith(Some("key"), Some("user"), CachedBlock)

NextNav ==
  \/ \E t \in InFlight : LoadFromCacheMode(t)
  \/ \E t \in InFlight : LoadFromCacheGetAll(t)
  \/ \E t \in InFlight : FetchGetApiKey(t)
  \/ \E t \in InFlight : FetchGetApiMode(t)
  \/ \E t \in InFlight : FetchGetOldest(t)
  \/ \E t \in InFlight : FetchFail(t)
  \/ \E t \in InFlight, fetchedRevives \in Pages : FetchResponse(t, fetchedRevives)
  \/ \E t \in InFlight : SaveRevivesDone(t)
  \/ \E t \in InFlight : GetAllRevivesDone(t)
  \/ handleRefresh
  \/ handleLoadMore
  \/ FirstPage
  \/ PreviousPage
  \/ NextPage
  \/ LastPage
  \/ \E pageNum \in 1..MaxPage : handlePageJump(pageNum)
  \/ \E newSize \in PageSizes : handlePageSizeChange(newSize)
  \/ \E value \in SearchInputs : setPlayerSearch(value)

SpecNav == InitNav /\ [][NextNav]_vars

(***************************************************************************)
(* The table over a returning user's cache: the filters, the date range    *)
(* and the exclusion of one player and one faction, from any page          *)
(***************************************************************************)
\* how many of the filters of t are set
ActiveFilters(t) ==
  Cardinality({ f \in 1..8 :
    CASE f = 1 -> t.categoryFilter # "all"
      [] f = 2 -> t.outcomeFilter # "all"
      [] f = 3 -> t.playerSearch # <<>>
      [] f = 4 -> t.factionSearch # <<>>
      [] f = 5 -> t.dateFrom # None
      [] f = 6 -> t.dateTo # None
      [] f = 7 -> t.excludedPlayers # {}
      [] f = 8 -> t.excludedFactions # {} })

Bounded == ActiveFilters(tbl') <= MaxActive

NextFilter ==
  \/ \E t \in InFlight : LoadFromCacheMode(t)
  \/ \E t \in InFlight : LoadFromCacheGetAll(t)
  \/ \E t \in InFlight : FetchGetApiKey(t)
  \/ \E t \in InFlight : FetchGetApiMode(t)
  \/ \E t \in InFlight : FetchGetOldest(t)
  \/ \E t \in InFlight : FetchFail(t)
  \/ \E t \in InFlight, fetchedRevives \in ShortPages : FetchResponse(t, fetchedRevives)
  \/ \E t \in InFlight : SaveRevivesDone(t)
  \/ \E t \in InFlight : GetAllRevivesDone(t)
  \/ NextPage
  \/ \E value \in CategoryInputs : setCategoryFilter(value) /\ Bounded
  \/ \E value \in OutcomeInputs : setOutcomeFilter(value) /\ Bounded
  \/ \E value \in SearchInputs : setPlayerSearch(value) /\ Bounded
  \/ \E value \in FactionSearchInputs : setFactionSearch(value) /\ Bounded
  \/ \E date \in DateInputs : handleFromDateSelect(date) /\ Bounded
  \/ \E date \in DateInputs : handleToDateSelect(date) /\ Bounded
  \/ toggleExcludePlayer(NameBo) /\ Bounded
  \/ toggleExcludeFaction(FacX) /\ Bounded
  \/ resetFilters
  \/ SettingsTxnDone

SpecFilter == InitNav /\ [][NextFilter]_vars

(***************************************************************************)
(* The exclusion sets and their persistence: toggles of every offered      *)
(* player and of one faction, the queued writes, and the reload by a       *)
(* remount of the table                                                    *)
(***************************************************************************)
NextExclude ==
  \/ \E m \in Modes : Login(m)
  \/ \E t \in InFlight : LoadFromCacheMode(t)
  \/ \E t \in InFlight : LoadFromCacheGetAll(t)
  \/ \E t \in InFlight : FetchGetApiKey(t)
  \/ \E t \in InFlight : FetchGetApiMode(t)
  \/ \E t \in InFlight : FetchFail(t)
  \/ \E t \in InFlight : FetchResponse(t, <<>>)
  \/ \E player \in uniquePlayers : toggleExcludePlayer(player)
  \/ toggleExcludeFaction(FacX)
  \/ resetFilters
  \/ SettingsTxnDone
  \/ handleLogout

SpecExclude == InitNav /\ [][NextExclude]_vars

(***************************************************************************)
(* components/revives-dashboard: export.  filteredRevivesRef is written    *)
(* only by handleFilteredRevivesChange, which the dashboard passes to the  *)
(* table as onFilteredRevivesChange; RevivesTable takes no such prop and   *)
(* never calls it, so the ref keeps its initial value.  dash.exported is   *)
(* (history) the sourceRevives of the last handleExportToExcel.            *)
(***************************************************************************)
sourceRevives(useFilters) == IF useFilters THEN dash.filteredRevivesRef ELSE dash.revives

\* the confirm dialog is open (handleExportClick: there are revives) and the
\* user picks "Export Filtered" or "Export All"
handleExportToExcel(useFilters) ==
  /\ isAuthenticated
  /\ dash.revives # <<>>
  /\ dash' = [ dash EXCEPT !.exported = Some(sourceRevives(useFilters)) ]
  /\ UNCHANGED << settings, stores, paymentStore, settingsQ, isAuthenticated, tbl, tasks, merged >>

(***************************************************************************)
(* The table's view of a returning user's cache: every combination of the  *)
(* filters, the exclusion of one player and one faction, and the sort by   *)
(* each column in both directions                                          *)
(***************************************************************************)
NextView ==
  \/ \E t \in InFlight : LoadFromCacheMode(t)
  \/ \E t \in InFlight : LoadFromCacheGetAll(t)
  \/ \E t \in InFlight : FetchGetApiKey(t)
  \/ \E t \in InFlight : FetchGetApiMode(t)
  \/ \E t \in InFlight : FetchResponse(t, <<>>)
  \/ \E value \in CategoryInputs : setCategoryFilter(value)
  \/ \E value \in OutcomeInputs : setOutcomeFilter(value)
  \/ \E value \in BlankableSearchInputs : setPlayerSearch(value)
  \/ \E value \in FactionSearchInputs : setFactionSearch(value)
  \/ \E date \in DateInputs : handleFromDateSelect(date)
  \/ \E date \in DateInputs : handleToDateSelect(date)
  \/ toggleExcludePlayer(NameBo)
  \/ toggleExcludeFaction(FacX)
  \/ \E field \in SortFields : handleSort(field)
  \/ SettingsTxnDone
  \/ \E useFilters \in BOOLEAN : handleExportToExcel(useFilters)

SpecView == InitNav /\ [][NextView]_vars

(***************************************************************************)
(* The enrichment of what the store holds: the dashboard of a returning    *)
(* user loads a store of one record with any reason or chance, or a store  *)
(* of any of the skill-gain records, and refreshes with a page that        *)
(* re-sends one of the stored records                                      *)
(***************************************************************************)
InitEnrich ==
  \/ \E reason \in ReasonInputs :
       InitWith(Some("key"), Some("user"), << ReasonRecord(reason, 5000) >>)
  \/ \E chance \in ChanceInputs :
       InitWith(Some("key"), Some("user"), << ReasonRecord(None, chance) >>)
  \/ \E ids \in SUBSET (1..Len(GainTable)) :
       InitWith(Some("key"), Some("user"), GainStore(ids))

NextEnrich ==
  \/ \E t \in InFlight : LoadFromCacheMode(t)
  \/ \E t \in InFlight : LoadFromCacheGetAll(t)
  \/ \E t \in InFlight : FetchGetApiKey(t)
  \/ \E t \in InFlight : FetchGetApiMode(t)
  \/ \E t \in InFlight : FetchResponse(t, <<>>)
  \/ \E t \in InFlight, r \in Range(stores[USER_REVIVES_STORE]) : FetchResponse(t, << r >>)
  \/ \E t \in InFlight : SaveRevivesDone(t)
  \/ \E t \in InFlight : GetAllRevivesDone(t)

SpecEnrich == InitEnrich /\ [][NextEnrich]_vars

(***************************************************************************)
(* The payment ledger under everything the user can do: payment toggles,   *)
(* refresh and backfill, search, sort, page and exclusion changes, logout  *)
(* and login, and the clearing of all data                                 *)
(***************************************************************************)
InitPay == \E ledger \in LedgerInputs : InitLedger(Some("key"), Some("user"), CachedBlock, ledger)

\* how many of page, search, sort and exclusion of t differ from the initial view
ViewChanges(t) ==
  Cardinality({ f \in 1..4 :
    CASE f = 1 -> t.currentPage # TblInit.currentPage
      [] f = 2 -> t.playerSearch # TblInit.playerSearch
      [] f = 3 -> t.sortField # TblInit.sortField
      [] f = 4 -> t.excludedPlayers # TblInit.excludedPlayers })

FewChanges == ViewChanges(tbl') <= MaxViewChanges

\* no call of the dashboard is in flight
Idle == \A t \in InFlight : t.pc = "pay_put"

NextPay ==
  \/ Login("user")
  \/ \E t \in InFlight : LoadFromCacheMode(t)
  \/ \E t \in InFlight : LoadFromCacheGetAll(t)
  \/ \E t \in InFlight : FetchGetApiKey(t)
  \/ \E t \in InFlight : FetchGetApiMode(t)
  \/ \E t \in InFlight : FetchGetOldest(t)
  \/ \E t \in InFlight, fetchedRevives \in { <<>>, << ReviveData(1, 0) >> } : FetchResponse(t, fetchedRevives)
  \/ \E t \in InFlight : SaveRevivesDone(t)
  \/ \E t \in InFlight : GetAllRevivesDone(t)
  \/ Idle /\ handleRefresh
  \/ Idle /\ NextPage /\ FewChanges
  \/ Idle /\ (\E value \in SearchInputs : setPlayerSearch(value)) /\ FewChanges
  \/ Idle /\ handleSort("skill") /\ FewChanges
  \/ Idle /\ toggleExcludePlayer(NameBO) /\ FewChanges
  \/ SettingsTxnDone
  \/ loadPaymentStatuses
  \/ \E row \in PayRowInputs : togglePaymentStatus(row[1], row[2])
  \/ \E t \in InFlight : SetPaymentStatusDone(t)
  \/ \E t \in InFlight : SetPaymentStatusFail(t)
  \/ Idle /\ handleLogout
  \/ Idle /\ handleClearAllData
  \/ Idle /\ handleClearAllDataAborted

SpecPay == InitPay /\ [][NextPay]_vars

(***************************************************************************)
(* The record store: merging pages                                         *)
(***************************************************************************)
FullStore(ver) == saveRevives(CachedBlock, << ReviveData(1, ver) >>)

\* C1: a revive store holds at most one record per id, and getAllRevives
\* returns as many records as there are distinct ids merged into the store
\* since the last clearAllData, pages that overlap cached ids included.
C1_OneRecordPerId ==
  \A n \in ReviveStores :
    LET all == getAllRevives(stores[n])
    IN  /\ \A i, j \in 1..Len(all) : all[i].id = all[j].id => i = j
        /\ Len(all) = Cardinality(merged[n])

\* a call has merged version 0 of record 1 and another call has merged
\* version 1 over it, into a store that still holds the cached block
C1_Witness ==
  \E t \in InFlight :
    /\ t.pc = "getall" /\ t.mode = "user"
    /\ t.page = << ReviveData(1, 0) >>
    /\ stores[USER_REVIVES_STORE] = FullStore(1)

\* the last record a page carries for an id
LastWrite(page, id) ==
  page[CHOOSE i \in 1..Len(page) : page[i].id = id /\ \A j \in (i + 1)..Len(page) : page[j].id # id]

\* C2: saveRevives is an upsert by id.  After a page is saved, getAllRevives
\* returns for every id of the page the last record the page carries for it,
\* whatever was stored under the id before; the records of other ids are
\* kept; and saving the same page again leaves the store as it is.
C2_Upsert ==
  [][ \A t \in InFlight :
        SaveRevivesDone(t) =>
          LET before == getAllRevives(stores[StoreName(t.mode)])
              after == getAllRevives(stores'[StoreName(t.mode)])
          IN  /\ \A id \in IdsOf(t.page) :
                   \A k \in 1..Len(after) : after[k].id = id => after[k] = LastWrite(t.page, id)
              /\ IdsOf(after) = IdsOf(before) \cup IdsOf(t.page)
              /\ \A k \in 1..Len(before) :
                   before[k].id \notin IdsOf(t.page) => before[k] \in Range(after)
              /\ saveRevives(stores'[StoreName(t.mode)], t.page) = stores'[StoreName(t.mode)]
    ]_vars

\* a page that writes record 1 twice has been saved over a cached record 1
C2_Witness ==
  \E t \in InFlight :
    /\ t.pc = "getall" /\ t.mode = "faction"
    /\ t.page = << ReviveData(1, 1), ReviveData(1, 0) >>
    /\ \E u \in InFlight : u.pc = "getall" /\ u.mode = "faction" /\ u.page = << ReviveData(1, 1) >>
    /\ ReviveData(1, 0) \in Range(stores[FACTION_REVIVES_STORE])

\* C3: the merge of a backfill does not raise the floor of its store: when
\* the call merges its page into the store whose oldest timestamp it read,
\* getOldestTimestamp afterwards is at most that timestamp.
C3_FloorNeverRises ==
  [][ \A t \in InFlight :
        ( /\ SaveRevivesDone(t)
          /\ t.backfill
          /\ t.oldest # None
          /\ t.oldest = getOldestTimestamp(stores[StoreName(t.mode)]) )
        => getOldestTimestamp(stores'[StoreName(t.mode)])[1] <= t.oldest[1]
    ]_vars

(***************************************************************************)
(* The dashboard: the outcome of a fetch                                   *)
(***************************************************************************)
\* C4: when the page of a backfill comes back empty, hasMoreData becomes
\* false, the error shown is not touched, and the stored records and the
\* displayed revives are what they were.
C4_EmptyBackfillPage ==
  [][ \A t \in InFlight :
        (FetchResponse(t, <<>>) /\ t.backfill /\ t.live) =>
          /\ ~dash'.hasMoreData
          /\ dash'.error = dash.error
          /\ stores' = stores
          /\ dash'.revives = dash.revives
    ]_vars

\* the dashboard shows its revives with the backfill marked exhausted
C4_Witness ==
  /\ isAuthenticated
  /\ ~dash.hasMoreData /\ ~dash.isLoadingMore
  /\ dash.error = ""
  /\ dash.revives # <<>>

\* C5: when the fetch of a refresh or a backfill fails, an error is shown,
\* the stored records (hence getOldestTimestamp) of every mode are unchanged,
\* and hasMoreData is left as the call found it: in particular a mode that
\* was marked exhausted when the call was requested is still marked so.
C5_FailedFetchKeepsCursor ==
  [][ \A t \in InFlight :
        (FetchFail(t) /\ t.live) =>
          /\ dash'.error # ""
          /\ ~t.hadMore => ~dash'.hasMoreData
          /\ stores' = stores
    ]_vars

(***************************************************************************)
(* The table: pagination                                                   *)
(***************************************************************************)
\* a click on "Next page" or "Go to last page", or a page jump, that lands on
\* the page which is the last page when the click is made
NavigateToLast ==
  /\ \/ NextPage
     \/ LastPage
     \/ \E pageNum \in 1..MaxPage : handlePageJump(pageNum)
  /\ tbl'.currentPage = TotalPages

\* C6: navigating to the page that is currently the last page starts a
\* backfill while hasMoreData is true (unless one is loading already), and
\* starts none once hasMoreData is false.
C6_BackfillOnLastPage ==
  [][ NavigateToLast =>
        IF dash.hasMoreData
        THEN dash.isLoadingMore \/ tasks' = Started(NewTask("key", TRUE, TRUE))
        ELSE tasks' = tasks
    ]_vars

\* C7: the page of the table is within 1..max(1, ceil(filteredCount / pageSize))
C7_PageWithinRange ==
  tbl.mounted =>
    /\ 1 <= tbl.currentPage
    /\ tbl.currentPage <= (IF TotalPages > 1 THEN TotalPages ELSE 1)

(***************************************************************************)
(* The table: filters and exclusions                                       *)
(***************************************************************************)
\* a step of the mounted table that changes a filter, the date range or an
\* exclusion set
FilterChanged ==
  /\ tbl.mounted /\ tbl'.mounted
  /\ \/ tbl'.categoryFilter # tbl.categoryFilter
     \/ tbl'.outcomeFilter # tbl.outcomeFilter
     \/ tbl'.playerSearch # tbl.playerSearch
     \/ tbl'.factionSearch # tbl.factionSearch
     \/ tbl'.dateFrom # tbl.dateFrom
     \/ tbl'.dateTo # tbl.dateTo
     \/ tbl'.excludedPlayers # tbl.excludedPlayers
     \/ tbl'.excludedFactions # tbl.excludedFactions

\* C8: whenever the category filter, the outcome filter, the player or the
\* faction search, a date of the range or an exclusion set changes, the
\* table is on page 1 afterwards, whatever page it was on.
C8_FilterChangeResetsPage == [][ FilterChanged => tbl'.currentPage = 1 ]_vars

\* the table is back on page 1 with the player search set, while the
\* backfill that its move to the last page started is still in flight
C8_Witness ==
  /\ tbl.mounted
  /\ tbl.playerSearch = <<"B">>
  /\ tbl.currentPage = 1
  /\ \E t \in InFlight : t.backfill /\ t.live

\* the record r is named by an exclusion set of the table
Excluded(r) ==
  \/ r.target.name \in tbl.excludedPlayers
  \/ r.target.faction # None /\ r.target.faction[1].name \in tbl.excludedFactions

\* C9: the filtered view is the view the other filters give without the
\* exclusion sets, less exactly the records whose target name is in
\* excludedPlayers or whose target faction name is in excludedFactions, by
\* equality of the strings: no excluded record is shown, a name that differs
\* in case is not excluded, and a record without faction is never removed by
\* the faction exclusion.
C9_ExcludedNeverShown ==
  tbl.mounted =>
    filteredAndSortedRevives(dash.revives, tbl)
      = SelectSeq(filteredAndSortedRevives(dash.revives,
                    [ tbl EXCEPT !.excludedPlayers = {}, !.excludedFactions = {} ]),
                  LAMBDA r : ~Excluded(r))

\* player "bo" and faction "X" are excluded, the view omits a record of
\* "bo", and it shows a record of "Bo" without faction
C9_Witness ==
  /\ tbl.mounted
  /\ tbl.excludedPlayers = { NameBo } /\ tbl.excludedFactions = { FacX }
  /\ \E i \in 1..Len(dash.revives) : dash.revives[i].target.name = NameBo
  /\ \E r \in Range(filteredAndSortedRevives(dash.revives, tbl)) :
       r.target.name = NameBO /\ r.target.faction = None

\* C10: an exclusion survives a reload.  A toggle that adds a name writes
\* the sets that hold the name together with every name excluded before: the
\* names of the table's sets and, while the table has not yet loaded the
\* stored sets and nothing else is being written, the names that are stored;
\* once the write completes getExcludedFilters returns what was written;
\* and the table that loads the stored sets on its mount holds exactly these
\* sets and shows no record they name.
C10_ExclusionSurvivesReload ==
  [][ /\ \A player \in uniquePlayers :
           (toggleExcludePlayer(player) /\ player \notin tbl.excludedPlayers) =>
             /\ settingsQ' # <<>>
             /\ settingsQ'[Len(settingsQ')] =
                  PutOp(ArrayFrom(tbl.excludedPlayers \cup { player }), ArrayFrom(tbl.excludedFactions))
             /\ (LoadPending /\ PendingPuts = 0 /\ settings.excludedFilters # None) =>
                  /\ Range(settings.excludedFilters[1].players)
                       \subseteq Range(settingsQ'[Len(settingsQ')].players)
                  /\ Range(settings.excludedFilters[1].factions)
                       \subseteq Range(settingsQ'[Len(settingsQ')].factions)
      /\ \A faction \in uniqueFactions :
           (toggleExcludeFaction(faction) /\ faction \notin tbl.excludedFactions) =>
             /\ settingsQ' # <<>>
             /\ settingsQ'[Len(settingsQ')] =
                  PutOp(ArrayFrom(tbl.excludedPlayers), ArrayFrom(tbl.excludedFactions \cup { faction }))
             /\ (LoadPending /\ PendingPuts = 0 /\ settings.excludedFilters # None) =>
                  /\ Range(settings.excludedFilters[1].players)
                       \subseteq Range(settingsQ'[Len(settingsQ')].players)
                  /\ Range(settings.excludedFilters[1].factions)
                       \subseteq Range(settingsQ'[Len(settingsQ')].factions)
      /\ (SettingsTxnDone /\ Head(settingsQ).op = "put") =>
           settings'.excludedFilters =
             Some([ players |-> Head(settingsQ).players, factions |-> Head(settingsQ).factions ])
      /\ (SettingsTxnDone /\ Head(settingsQ).op = "get" /\ settings.excludedFilters # None) =>
           /\ tbl'.excludedPlayers = Range(settings.excludedFilters[1].players)
           /\ tbl'.excludedFactions = Range(settings.excludedFilters[1].factions)
           /\ \A r \in Range(filteredAndSortedRevives(dash'.revives, tbl')) :
                /\ r.target.name \notin Range(settings.excludedFilters[1].players)
                /\ r.target.faction # None =>
                     r.target.faction[1].name \notin Range(settings.excludedFilters[1].factions)
    ]_vars

(***************************************************************************)
(* The filtered and sorted view                                            *)
(***************************************************************************)
\* sub occurs in str when the case of the letters is ignored
OccursIgnoringCase(str, sub) ==
  \E i \in 0..(Len(str) - Len(sub)) :
    \A k \in 1..Len(sub) : LowerChar(str[i + k]) = LowerChar(sub[k])

\* a search of spaces only is no search
Blank(str) == Range(str) \subseteq { " " }

\* the record r satisfies every active predicate of the table
Satisfies(r) ==
  /\ tbl.categoryFilter = "all" \/ r.Category = tbl.categoryFilter
  /\ tbl.outcomeFilter = "all" \/ (IF r.Success THEN "success" ELSE "failure") = tbl.outcomeFilter
  /\ Blank(tbl.playerSearch) \/ OccursIgnoringCase(r.target.name, tbl.playerSearch)
  /\ Blank(tbl.factionSearch)
       \/ (r.target.faction # None /\ OccursIgnoringCase(r.target.faction[1].name, tbl.factionSearch))
  /\ tbl.dateFrom = None \/ tbl.dateFrom[1] <= r.timestamp
  /\ tbl.dateTo = None \/ r.timestamp <= tbl.dateTo[1] + 86399
  /\ r.target.name \notin tbl.excludedPlayers
  /\ r.target.faction = None \/ r.target.faction[1].name \notin tbl.excludedFactions

\* C11: the filtered set is exactly the set of records that satisfy the
\* conjunction of the active predicates (category, outcome, player search,
\* faction search, date range with both bounds inclusive and the selected
\* days at midnight, exclusion); an inactive predicate removes nothing.
C11_FilteredExactly ==
  tbl.mounted =>
    LET view == filteredAndSortedRevives(dash.revives, tbl)
    IN  /\ Range(view) = { r \in Range(dash.revives) : Satisfies(r) }
        /\ Len(view) = Cardinality(Range(view))
        /\ \A d \in {tbl.dateFrom, tbl.dateTo} : d # None => d[1] % (2 * HalfDay) = 0

\* five predicates are active and the view holds one record of the ten: the
\* overdose of day 3 at noon, whose target has no faction
C11_Witness ==
  /\ tbl.mounted
  /\ tbl.categoryFilter = "OD" /\ tbl.playerSearch = <<"B">>
  /\ tbl.dateFrom = Some(6 * HalfDay) /\ tbl.dateTo = Some(6 * HalfDay)
  /\ tbl.excludedFactions = { FacX }
  /\ Len(dash.revives) = NumCached
  /\ LET view == filteredAndSortedRevives(dash.revives, tbl)
     IN  Len(view) = 1 /\ view[1].id = 7 /\ view[1].timestamp = 7 * HalfDay

\* the place of the record r in the sequence seq
PlaceIn(seq, r) == CHOOSE i \in 1..Len(seq) : seq[i] = r

\* the active sort key of the record r
ActiveKey(r) ==
  CASE tbl.sortField = "timestamp" -> r.timestamp
    [] tbl.sortField = "skill" -> IF r.reviver.skill = None THEN 0 ELSE r.reviver.skill[1]
    [] tbl.sortField = "likelihood" -> r.Chance

\* C12: the sorted view is a permutation of the filtered set, ordered by the
\* active key (timestamp, reviver skill with a missing skill as 0, chance)
\* in the active direction; records with equal keys keep the relative order
\* they had before the sort, ascending and descending.
C12_StableSort ==
  tbl.mounted =>
    LET view == filteredAndSortedRevives(dash.revives, tbl)
    IN  /\ Range(view) = { r \in Range(dash.revives) : PassesFilters(r, tbl) }
        /\ Len(view) = Cardinality(Range(view))
        /\ \A i, j \in 1..Len(view) :
             i < j =>
               /\ tbl.sortDirection = "asc" => ActiveKey(view[i]) <= ActiveKey(view[j])
               /\ tbl.sortDirection = "desc" => ActiveKey(view[i]) >= ActiveKey(view[j])
               /\ ActiveKey(view[i]) = ActiveKey(view[j]) =>
                    PlaceIn(dash.revives, view[i]) < PlaceIn(dash.revives, view[j])

\* the ten records by ascending skill: the two records without skill come
\* first, in the order of the store
C12_Witness ==
  /\ tbl.mounted
  /\ tbl.sortField = "skill" /\ tbl.sortDirection = "asc"
  /\ LET view == filteredAndSortedRevives(dash.revives, tbl)
     IN  /\ Len(view) = NumCached
         /\ view[1].id = 4 /\ view[2].id = 8
         /\ view[1].reviver.skill = None /\ view[2].reviver.skill = None

(***************************************************************************)
(* The enrichment                                                          *)
(***************************************************************************)
\* the categories in the order of their rules, and the phrases of each
CategoryOrder == << "RR", "Self Hosp", "Casino", "PvP", "OD" >>

PhrasesOf(category) ==
  CASE category = "RR" -> { "Shot themselves in the foot" }
    [] category = "Self Hosp" -> { "Severe emesis following Ipecac Syrup ingestion" }
    [] category = "Casino" -> { "Punched in the face by Leslie", "face punch",
                                "kick to the throat", "choke hold" }
    [] category = "PvP" -> { "Lost to", "Mugged by", "Hospitalized by" }
    [] category = "OD" -> { "Overdosed on", "Collapsed after" }

\* the places in CategoryOrder of the categories the text matches
MatchedPlaces(text) == { k \in 1..Len(CategoryOrder) : PhrasesOf(CategoryOrder[k]) \cap Range(text) # {} }

\* C13: getCategory gives the earliest category, in the order RR, Self Hosp,
\* Casino, PvP, OD, of those whose phrases the reason text contains, and
\* Crime for a text that contains none, the empty text included.
C13_CategoryPrecedence ==
  \A i \in 1..Len(dash.revives) :
    LET r == dash.revives[i]
        text == IF r.target.hospital_reason = None THEN <<>> ELSE r.target.hospital_reason[1]
        places == MatchedPlaces(text)
    IN  /\ places = {} => r.Category = "Crime"
        /\ places # {} =>
             \E k \in places : r.Category = CategoryOrder[k] /\ \A m \in places : k <= m

\* a reason with a PvP phrase and then an RR phrase is classified RR
C13_Witness ==
  /\ Len(dash.revives) = 1
  /\ dash.revives[1].target.hospital_reason = Some(<< "Lost to", "Shot themselves in the foot" >>)
  /\ dash.revives[1].Category = "RR"

\* the band the claim gives a chance (in hundredths)
Band(chance) ==
  { b \in { "Low", "Medium", "High", "Very High" } :
      \/ b = "Low" /\ chance <= 3000
      \/ b = "Medium" /\ 3000 < chance /\ chance <= 6000
      \/ b = "High" /\ 6000 < chance /\ chance <= 8000
      \/ b = "Very High" /\ chance > 8000 }

\* C14: getLikelihood partitions the chances with closed upper bounds: up to
\* 30 is Low, above 30 up to 60 is Medium, above 60 up to 80 is High, above
\* 80 is Very High; every chance has exactly one band; 30, 60 and 80 are
\* Low, Medium and High.
C14_LikelihoodBands ==
  \A i \in 1..Len(dash.revives) :
    LET r == dash.revives[i]
    IN  /\ Band(r.success_chance) = { r.Likelihood }
        /\ r.success_chance = 3000 => r.Likelihood = "Low"
        /\ r.success_chance = 6000 => r.Likelihood = "Medium"
        /\ r.success_chance = 8000 => r.Likelihood = "High"
        /\ r.success_chance = 8001 => r.Likelihood = "Very High"

\* a chance of exactly 80 is High
C14_Witness ==
  /\ Len(dash.revives) = 1
  /\ dash.revives[1].success_chance = 8000
  /\ dash.revives[1].Chance = 8000
  /\ dash.revives[1].Likelihood = "High"

\* the places of the successful revives of others by the reference actor
Subsequence(records, ref) ==
  { i \in 1..Len(records) : /\ records[i].reviver.id = ref
                            /\ records[i].target.id # ref
                            /\ records[i].result = "success" }

\* i comes before j: by timestamp, and by the place in the input on a tie
Earlier(records, i, j) ==
  \/ records[i].timestamp < records[j].timestamp
  \/ records[i].timestamp = records[j].timestamp /\ i < j

Later(records, ref, i) == { j \in Subsequence(records, ref) : Earlier(records, i, j) }

\* the element that follows i in the subsequence (i is not the final one)
Following(records, ref, i) ==
  CHOOSE j \in Later(records, ref, i) :
    \A k \in Later(records, ref, i) : k = j \/ Earlier(records, j, k)

SkillOf(r) == IF r.reviver.skill = None THEN 0 ELSE r.reviver.skill[1]

\* g is delta rounded to two decimals (both in thousandths)
RoundedTo2(g, delta) == g % 10 = 0 /\ 2 * (g - delta) <= 10 /\ 2 * (delta - g) < 10

\* out carries the gains the claim gives for the records and the reference
GainsAsClaimed(out, records, ref) ==
  \A i \in Subsequence(records, ref) :
    Later(records, ref, i) # {} =>
      LET next == records[Following(records, ref, i)]
      IN  /\ out[i].Gain # None
          /\ SkillOf(next) >= 100000 => out[i].Gain[1] = 0
          /\ SkillOf(next) < 100000 =>
               RoundedTo2(out[i].Gain[1], SkillOf(records[i]) - SkillOf(next))

\* the enrichment that a step of the dashboard displays: of what the store
\* holds, with the reference actor the call passes
EnrichedBy(t, ref) ==
  /\ t.live
  /\ stores[StoreName(t.mode)] # <<>>
  /\ ref = IF t.pc = "lc_getall" THEN stores[StoreName(t.mode)][1].reviver.id
           ELSE t.page[1].reviver.id

EnrichStep(t) == LoadFromCacheGetAll(t) \/ GetAllRevivesDone(t)

\* C15: every non-final element of the reference actor's success
\* subsequence, taken in ascending time order with ties in input order
\* whatever the order of the input, has Gain = skill(current) - skill(next)
\* rounded to two decimals, a missing skill read as 0, and Gain = 0 when
\* skill(next) >= 100.
C15_SkillGain ==
  [][ \A t \in InFlight : \A ref \in {1, 2} :
        (EnrichStep(t) /\ EnrichedBy(t, ref)) =>
          GainsAsClaimed(dash'.revives, stores[StoreName(t.mode)], ref)
    ]_vars

\* the store holds the records 1, 2 and 3: in time order (2, 3, 1) the
\* skills are 50, 40 and 20 and the gains 10, 20 and null
C15_Witness ==
  /\ stores[USER_REVIVES_STORE] = GainStore({1, 2, 3})
  /\ Len(dash.revives) = 3
  /\ dash.revives[2].Gain = Some(10000)
  /\ dash.revives[3].Gain = Some(20000)
  /\ dash.revives[1].Gain = None

\* C16: Gain is non-null only on records of the reference actor's success
\* subsequence; every record outside it has Gain = null, and so has the
\* final element of the subsequence, the one with the latest timestamp
\* (on a tie, the later one in the input).
C16_GainOnlyInside ==
  [][ \A t \in InFlight : \A ref \in {1, 2} :
        (EnrichStep(t) /\ EnrichedBy(t, ref)) =>
          LET records == stores[StoreName(t.mode)]
          IN  \A i \in 1..Len(records) :
                /\ i \notin Subsequence(records, ref) => dash'.revives[i].Gain = None
                /\ (i \in Subsequence(records, ref) /\ Later(records, ref, i) = {}) =>
                     dash'.revives[i].Gain = None
    ]_vars

\* the store holds a revive by another player, a revive of the reviver by
\* themselves, a failed revive and three of the subsequence: the first three
\* and the newest of the subsequence have no gain
C16_Witness ==
  /\ stores[USER_REVIVES_STORE] = GainStore({1, 3, 6, 7, 8, 10})
  /\ Len(dash.revives) = 6
  /\ dash.revives[3].Gain = None /\ dash.revives[4].Gain = None /\ dash.revives[5].Gain = None
  /\ dash.revives[6].Gain = None
  /\ dash.revives[1].Gain # None /\ dash.revives[2].Gain # None

\* the raw fields of a record
Raw(r) ==
  [ id |-> r.id, reviver |-> r.reviver, target |-> r.target, result |-> r.result,
    success_chance |-> r.success_chance, timestamp |-> r.timestamp ]

EntriesAt(ledger, id) == { e \in ledger : e.id = id }

\* C18: the payment ledger changes only through togglePaymentStatus, which
\* creates or flips exactly the entry keyed by the timestamp and the target
\* id and leaves every other entry unchanged, or through clearAllData;
\* refresh, backfill, exclusion toggles, filter, sort and page changes and
\* logout leave every entry unchanged.
C18_LedgerFrame ==
  [][ /\ paymentStore' # paymentStore =>
           \/ \E t \in InFlight : SetPaymentStatusDone(t)
           \/ handleClearAllData
      /\ \A t \in InFlight :
           SetPaymentStatusDone(t) =>
             LET id == t.item[1].id
             IN  /\ \A e \in paymentStore \cup paymentStore' :
                      e.id # id => (e \in paymentStore /\ e \in paymentStore')
                 /\ Cardinality(EntriesAt(paymentStore', id)) = 1
                 /\ \A e \in EntriesAt(paymentStore, id) :
                      [ id |-> id, isPaid |-> ~e.isPaid ] \in paymentStore'
    ]_vars

\* the four collections of a database state, and whether each is empty
IsEmpty(collection, st, rv, pay) ==
  CASE collection = SETTINGS_STORE ->
         st.apiKey = None /\ st.apiMode = None /\ st.excludedFilters = None
    [] collection \in ReviveStores -> rv[collection] = <<>>
    [] collection = PAYMENT_STATUS_STORE -> pay = {}

Collections == { SETTINGS_STORE, PAYMENT_STATUS_STORE } \cup ReviveStores

REVIVES_STORE == "revives"

NoDatabase == <<>>

\* initDB of the earlier release (DB_VERSION 2): onupgradeneeded
onupgradeneeded2(db) ==
  IF REVIVES_STORE \in DOMAIN db THEN db ELSE db @@ (REVIVES_STORE :> <<>>)

\* initDB (DB_VERSION 3): onupgradeneeded creates the stores of the two
\* modes where they are missing and deletes the store "revives"
onupgradeneeded(db) ==
  LET withUser == IF USER_REVIVES_STORE \in DOMAIN db
                  THEN db ELSE db @@ (USER_REVIVES_STORE :> <<>>)
      withFaction == IF FACTION_REVIVES_STORE \in DOMAIN withUser
                     THEN withUser ELSE withUser @@ (FACTION_REVIVES_STORE :> <<>>)
  IN  IF REVIVES_STORE \in DOMAIN withFaction
      THEN [ n \in DOMAIN withFaction \ { REVIVES_STORE } |-> withFaction[n] ]
      ELSE withFaction

\* the database is open at the current version
Opened == DOMAIN stores = ReviveStores

\* HomePage.checkAuth on a database of an earlier release: initDB upgrades
\* it, then the key decides whether the dashboard mounts
checkAuth ==
  /\ ~Opened
  /\ stores' = onupgradeneeded(stores)
  /\ isAuthenticated' = (getApiKey # None)
  /\ tasks' = IF getApiKey # None
              THEN SetToBag({ NewTask("lc_mode", FALSE, DashInit.hasMoreData) })
              ELSE EmptyBag
  /\ merged' = [ n \in ReviveStores |-> IdsOf(stores'[n]) ]
  /\ UNCHANGED << settings, paymentStore, settingsQ, dash, tbl >>

\* what the earlier release has cached: any of the cached records
LegacyInputs ==
  { SelectSeq(CachedBlock, LAMBDA r : r.id \in ids) : ids \in SUBSET IdsOf(CachedBlock) }

\* the page loads over the database of the earlier release, before initDB
InitUpgrade ==
  \E key \in { None, Some("key") }, legacy \in LegacyInputs :
    /\ key = None => legacy = <<>>
    /\ settings = [ apiKey |-> key, apiMode |-> None, excludedFilters |-> None ]
    /\ stores = [ n \in DOMAIN onupgradeneeded2(NoDatabase) |-> legacy ]
    /\ paymentStore = {}
    /\ settingsQ = <<>>
    /\ isAuthenticated = FALSE
    /\ dash = DashInit
    /\ tbl = TblInit
    /\ tasks = EmptyBag
    /\ merged = [ n \in ReviveStores |-> {} ]

NextUpgrade ==
  \/ checkAuth
  \/ Opened /\ Login("user")
  \/ Opened /\ \E t \in InFlight : LoadFromCacheMode(t)
  \/ Opened /\ \E t \in InFlight : LoadFromCacheGetAll(t)
  \/ Opened /\ \E t \in InFlight : FetchGetApiKey(t)
  \/ Opened /\ \E t \in InFlight : FetchGetApiMode(t)
  \/ Opened /\ \E t \in InFlight, fetchedRevives \in { <<>>, << ReviveData(1, 0) >> } :
                 FetchResponse(t, fetchedRevives)
  \/ Opened /\ \E t \in InFlight : SaveRevivesDone(t)
  \/ Opened /\ \E t \in InFlight : GetAllRevivesDone(t)
  \/ Opened /\ handleRefresh

SpecUpgrade == InitUpgrade /\ [][NextUpgrade]_vars

(***************************************************************************)
(* The record store: upgrade from the earlier release                      *)
(***************************************************************************)
\* C20: when initDB upgrades a database that holds the legacy collection
\* "revives", every record of that collection is in the collection of one
\* of the modes after the upgrade: no upgrade discards legacy records.
C20_LegacyRecordsKept ==
  [][ (REVIVES_STORE \in DOMAIN stores /\ checkAuth) =>
        \A r \in Range(stores[REVIVES_STORE]) :
          \E n \in ReviveStores : r \in Range(stores'[n])
    ]_vars

(***************************************************************************)
(* Export                                                                  *)
(***************************************************************************)
\* C21: an export with filters is handed the full unpaginated filtered set
\* the table shows across all its pages, and an export without filters is
\* handed the full unfiltered enriched set.
C21_ExportReceivesView ==
  [][ /\ (tbl.mounted /\ handleExportToExcel(TRUE)) =>
           \E handed \in { dash'.exported[1] } :
             Range(handed) = Range(filteredAndSortedRevives(dash.revives, tbl))
      /\ handleExportToExcel(FALSE) => dash'.exported = Some(dash.revives)
    ]_vars

(***************************************************************************)
(* Overlapping calls of fetchRevives                                       *)
(***************************************************************************)
\* two calls of the mounted dashboard are in flight and both have merged
\* their page into the store n, neither has displayed yet
BothMerged(bag, t1, t2, n) ==
  /\ t1 \in BagToSet(bag) /\ t2 \in BagToSet(bag)
  /\ t1 # t2 \/ bag[t1] >= 2
  /\ t1.live /\ t2.live
  /\ t1.pc = "getall" /\ t2.pc = "getall"
  /\ StoreName(t1.mode) = n /\ StoreName(t2.mode) = n

\* C22: when a refresh and a backfill (or two backfills) of one mode overlap,
\* in whatever order their steps interleave: no stored record is lost; once
\* both have merged, the store holds every id of both pages once, with a
\* record one of the pages carries for it; and when the last call completes
\* the displayed revives are the enrichment of the store as it then is.
C22_OverlapMerges ==
  [][ /\ stores' # stores =>
           \A n \in ReviveStores : IdsOf(stores[n]) \subseteq IdsOf(stores'[n])
      /\ \A n \in ReviveStores : \A t1, t2 \in { t \in BagToSet(tasks') : t.pc = "getall" } :
           BothMerged(tasks', t1, t2, n) =>
             LET all == getAllRevives(stores'[n])
             IN  /\ IdsOf(t1.page) \cup IdsOf(t2.page) \subseteq IdsOf(all)
                 /\ \A i, j \in 1..Len(all) : all[i].id = all[j].id => i = j
                 /\ \A i \in 1..Len(all) :
                      all[i].id \in IdsOf(t1.page) \cup IdsOf(t2.page) =>
                        all[i] \in Range(t1.page) \cup Range(t2.page)
      /\ \A t \in InFlight :
           (GetAllRevivesDone(t) /\ t.live /\ tasks' = EmptyBag) =>
             dash'.revives = enrichRevives(getAllRevives(stores'[StoreName(t.mode)]),
                                           t.page[1].reviver.id)
    ]_vars

\* a refresh and a backfill of the user mode overlap: both have merged a page
\* into the store and neither has displayed yet
C22_Witness ==
  \E t1, t2 \in InFlight :
    /\ BothMerged(tasks, t1, t2, USER_REVIVES_STORE)
    /\ t1.backfill /\ ~t2.backfill
    /\ t1.page = << ReviveData(1, 0) >> /\ t2.page = << ReviveData(1, 1) >>

(***************************************************************************)
(* The record store: the two modes                                         *)
(***************************************************************************)
OtherMode(mode) == IF mode = "user" THEN "faction" ELSE "user"

\* the least timestamp among the records of a store, or none
MinTimestamp(content) ==
  IF content = <<>> THEN None
  ELSE Some(CHOOSE ts \in { r.timestamp : r \in Range(content) } :
              \A r \in Range(content) : ts <= r.timestamp)

\* C23: the records are scoped by mode.  A saveRevives of one mode leaves
\* getAllRevives and getOldestTimestamp of the other mode as they were, and
\* getOldestTimestamp of a mode is the least timestamp among exactly the
\* records of that mode, or none when the mode has no record (compared
\* before and after every step that writes a store).
C23_ModeScoped ==
  [][ /\ \A t \in InFlight :
           SaveRevivesDone(t) =>
             LET other == StoreName(OtherMode(t.mode))
             IN  /\ getAllRevives(stores'[other]) = getAllRevives(stores[other])
                 /\ getOldestTimestamp(stores'[other]) = getOldestTimestamp(stores[other])
      /\ stores' # stores =>
           \A mode \in Modes :
             /\ getOldestTimestamp(stores[StoreName(mode)]) = MinTimestamp(getAllRevives(stores[StoreName(mode)]))
             /\ getOldestTimestamp(stores'[StoreName(mode)]) = MinTimestamp(getAllRevives(stores'[StoreName(mode)]))
    ]_vars

\* a page has been saved in faction mode while the user mode has no record:
\* the oldest timestamp of the faction mode is the page's, the user mode has none
C23_Witness ==
  /\ \E t \in InFlight : t.pc = "getall" /\ t.mode = "faction" /\ t.page = << ReviveData(1, 0) >>
  /\ stores[USER_REVIVES_STORE] = <<>>
  /\ getOldestTimestamp(stores[USER_REVIVES_STORE]) = None
  /\ getOldestTimestamp(stores[FACTION_REVIVES_STORE]) = Some(ReviveData(1, 0).timestamp)

(***************************************************************************)
(* What is stored and what is displayed                                    *)
(***************************************************************************)
RawFields == { "id", "reviver", "target", "result", "success_chance", "timestamp" }

\* C24: derived fields are never persisted and the displayed revives are
\* always derived from the complete cache.  Every stored record has the raw
\* fields only; and whenever the dashboard replaces its displayed revives
\* (the load from the cache, a refresh, a backfill) the new value is
\* enrichRevives of everything getAllRevives returns for the mode, which
\* after a merge includes the fetched page.
C24_DisplayedFromWholeCache ==
  [][ /\ stores' # stores =>
           \A n \in ReviveStores : \A r \in Range(stores'[n]) : DOMAIN r = RawFields
      /\ (dash'.revives # dash.revives /\ dash'.revives # <<>>) =>
           \E t \in InFlight :
             LET all == getAllRevives(stores'[StoreName(t.mode)])
             IN  /\ EnrichStep(t)
                 /\ dash'.revives = enrichRevives(all, all[1].reviver.id)
                 /\ GetAllRevivesDone(t) => IdsOf(t.page) \subseteq IdsOf(dash'.revives)
    ]_vars

\* a refresh has merged a page of one record into the ten cached records
\* and the dashboard displays all eleven
C24_Witness ==
  /\ isAuthenticated
  /\ tasks = EmptyBag
  /\ Len(stores[USER_REVIVES_STORE]) = NumCached + 1
  /\ dash.mode = "user"
  /\ Len(dash.revives) = NumCached + 1
  /\ dash.revives[1].id = 1 /\ DOMAIN dash.revives[1] # RawFields

(***************************************************************************)
(* Logout                                                                  *)
(***************************************************************************)
\* C25: logout clears the user's data and the API key: when handleLogout
\* has completed the stored key is absent and no cached record of the
\* session is left in a store, so that a later login finds nothing to display.
C25_LogoutClearsData ==
  [][ handleLogout =>
        /\ getApiKey' = None
        /\ \A mode \in Modes : getAllRevives(stores'[StoreName(mode)]) = <<>>
    ]_vars

(***************************************************************************)
(* Backfill against a finite source.  The source holds record 1 and the    *)
(* cached block, and answers a request with its newest records, at most    *)
(* MaxPageLen of them (the limit of the request), not later than the bound *)
(* "to" when the request carries one.  Whether a record whose timestamp is *)
(* exactly "to" is returned is the source's choice: the source is not part *)
(* of the repository.  The cache holds the newest of the cached records,   *)
(* any number of them; every fetch succeeds.  Fairness: every await of a   *)
(* call resolves (no call stays at one await forever), and Load More is    *)
(* pressed whenever it stays enabled with no call in flight.               *)
(***************************************************************************)
SourcePage(to, inclusive) ==
  LET source == << ReviveData(1, 0) >> \o CachedBlock
      bounded == SelectSeq(source, LAMBDA r : \/ to = None
                                             \/ r.timestamp < to[1]
                                             \/ (inclusive /\ r.timestamp = to[1]))
      limit == IF Len(bounded) < MaxPageLen THEN Len(bounded) ELSE MaxPageLen
  IN  [ i \in 1..limit |-> bounded[Len(bounded) + 1 - i] ]

NextBackfill ==
  \/ \E t \in InFlight : LoadFromCacheMode(t)
  \/ \E t \in InFlight : LoadFromCacheGetAll(t)
  \/ \E t \in InFlight : FetchGetApiKey(t)
  \/ \E t \in InFlight : FetchGetApiMode(t)
  \/ \E t \in InFlight : FetchGetOldest(t)
  \/ \E t \in InFlight, inclusive \in BOOLEAN : FetchResponse(t, SourcePage(t.oldest, inclusive))
  \/ \E t \in InFlight : SaveRevivesDone(t)
  \/ \E t \in InFlight : GetAllRevivesDone(t)
  \/ tasks = EmptyBag /\ handleLoadMore

SpecBackfill ==
  /\ \E from \in 1..(NumCached + 1) :
       InitWith(Some("key"), Some("user"), SubSeq(CachedBlock, from, NumCached))
  /\ [][NextBackfill]_vars
  /\ \A pc \in { "lc_mode", "lc_getall", "key", "mode", "oldest", "fetch", "save", "getall" } :
       []<>(\A t \in InFlight : t.pc # pc)
  /\ WF_vars(tasks = EmptyBag /\ handleLoadMore)

\* C26: backfill reaches exhaustion.  Against a source that holds finitely
\* many records, with every fetch succeeding and backfill invoked again and
\* again, each request bounded by to = getOldestTimestamp, eventually a
\* backfill receives an empty page and hasMoreData becomes false.
C26_BackfillExhausts == <>(~dash.hasMoreData)

(***************************************************************************)
(* One fetch at a time                                                     *)
(***************************************************************************)
\* the calls of fetchRevives of the mounted dashboard that have not completed
FetchesInFlight ==
  BagCardinality([ t \in { u \in InFlight : u.live /\ u.pc \notin { "lc_mode", "lc_getall" } } |-> tasks[t] ])

\* C27: at most one fetch is in flight at any time: while a refresh or a
\* backfill has not completed, no trigger (Refresh, Load More, navigation
\* to the last page) starts another fetchRevives; and isLoadingMore is true
\* for as long as a backfill is in flight.
C27_OneFetchInFlight ==
  /\ FetchesInFlight <= 1
  /\ \A t \in InFlight : (t.live /\ t.backfill) => dash.isLoadingMore

(***************************************************************************)
(* The stored exclusion sets and the ones in use                           *)
(***************************************************************************)
\* what getExcludedFilters returns, as sets (nothing stored: empty sets)
StoredExclusions ==
  IF settings.excludedFilters = None
  THEN [ players |-> {}, factions |-> {} ]
  ELSE [ players |-> Range(settings.excludedFilters[1].players),
         factions |-> Range(settings.excludedFilters[1].factions) ]

\* C28: the persisted exclusion sets match the ones in use: after any
\* sequence of toggleExcludePlayer, toggleExcludeFaction and resetFilters,
\* once the table's load and every pending write have completed, the value
\* stored under excludedFilters holds exactly the table's excludedPlayers
\* and excludedFactions, so that a reload of the table gives the same view.
C28_StoredMatchesInUse ==
  (tbl.mounted /\ settingsQ = <<>>) =>
    /\ StoredExclusions.players = tbl.excludedPlayers
    /\ StoredExclusions.factions = tbl.excludedFactions

(***************************************************************************)
(* Payment toggles that overlap                                            *)
(***************************************************************************)
\* C29: payment toggles are not lost: every completed togglePaymentStatus
\* of a key flips the persisted paid value of that key (so that after n
\* completed toggles it is the initial value flipped n times), also when
\* the toggle was issued before the write of the previous one completed,
\* and leaves the table's paymentStatuses entry equal to the persisted
\* value; a toggle whose write fails leaves the in-memory value unchanged.
C29_TogglesNotLost ==
  [][ \A t \in InFlight :
        /\ (t.live /\ SetPaymentStatusDone(t)) =>
             LET id == t.item[1].id
             IN  /\ StatusOf(paymentStore', id) = ~StatusOf(paymentStore, id)
                 /\ StatusOf(tbl'.paymentStatuses, id) = StatusOf(paymentStore', id)
        /\ SetPaymentStatusFail(t) =>
             /\ tbl'.paymentStatuses = tbl.paymentStatuses
             /\ paymentStore' = paymentStore
    ]_vars

\* the parts of C29 that hold: after a completed toggle the table's entry
\* is the persisted one, and a failed write changes neither
C29_MemoryFollowsStore ==
  [][ \A t \in InFlight :
        /\ (t.live /\ SetPaymentStatusDone(t)) =>
             StatusOf(tbl'.paymentStatuses, t.item[1].id) = StatusOf(paymentStore', t.item[1].id)
        /\ SetPaymentStatusFail(t) =>
             /\ tbl'.paymentStatuses = tbl.paymentStatuses
             /\ paymentStore' = paymentStore
    ]_vars

(***************************************************************************)
(* The pages of the view                                                   *)
(***************************************************************************)
\* the slice the table shows on page p
PageOf(p) == paginatedRevives(dash.revives, [ tbl EXCEPT !.currentPage = p ])

\* the slices of pages 1..p, one after the other
RECURSIVE PagesUpTo(_)
PagesUpTo(p) == IF p = 0 THEN <<>> ELSE PagesUpTo(p - 1) \o PageOf(p)

\* C30: the pages partition the view: in every state of the table, whatever
\* the filtered sorted list and whichever page size of {5, 10, 15, 20} is
\* selected, the slices of pages 1..totalPages, concatenated in order, are
\* exactly the filtered sorted list; every page but the last holds exactly
\* pageSize records, and the last one holds between 1 and pageSize records
\* when the list is not empty (there is no page when it is).
C30_PagesPartition ==
  tbl.mounted =>
    LET all == filteredAndSortedRevives(dash.revives, tbl)
        last == totalPages(dash.revives, tbl)
    IN  /\ tbl.pageSize \in PageSizes
        /\ PagesUpTo(last) = all
        /\ \A p \in 1..(last - 1) : Len(PageOf(p)) = tbl.pageSize
        /\ all # <<>> => last >= 1 /\ Len(PageOf(last)) \in 1..tbl.pageSize
        /\ all = <<>> => last = 0

\* the table shows the second of three pages of five over eleven records:
\* two full pages and a last page of one
C30_Witness ==
  /\ tbl.mounted
  /\ tbl.pageSize = 5
  /\ tbl.currentPage = 2
  /\ totalPages(dash.revives, tbl) = 3
  /\ Len(filteredAndSortedRevives(dash.revives, tbl)) = 11
  /\ Len(paginatedRevives(dash.revives, tbl)) = 5
  /\ Len(PageOf(3)) = 1

====
